---- MODULE Spec2Model ----
(***************************************************************************)
(* HealthFlow: the processing pipeline of server/routes.ts                 *)
(* (POST /api/projects/:id/process), the generator of                      *)
(* server/services/testCaseGenerator.ts, the adapters of                   *)
(* server/services/gemini.ts and the in-memory repository of               *)
(* server/storage.ts.                                                      *)
(*                                                                         *)
(* Strings that the code builds (ids, labels) are sequences of one-letter  *)
(* strings; an optional / nullable value is <<>> (absent, null, NaN) or    *)
(* <<v>>.  A Map of storage.ts is a sequence in insertion order, and the   *)
(* key randomUUID gives to its n-th entry is Uuid(map, n).                 *)
(*                                                                         *)
(* The process handler is cut at its awaits of the adapters and of the     *)
(* repository writes that follow the generator; the variables of a handler *)
(* are functions of the project it runs for (one handler per project at a  *)
(* time).  Entities carry the fields the properties below speak about.     *)
(* Spec is the program on MemStorage, whose calls never reject;            *)
(* SpecStorageFault is the program on an IStorage whose calls may reject.  *)
(* SpecUpload is the upload endpoint with its answers, SpecExport the      *)
(* export endpoint over stored texts (generateCSV, generateXML); the       *)
(* client of the stream (Dashboard.processDocuments) is a fold over the    *)
(* frames it has read.                                                     *)
(***************************************************************************)
EXTENDS Integers, Sequences, FiniteSets, TLC

\* ------------------------------------------------------------------ bounds
MaxDocs == 1
MaxFiles == 1
MaxReqs == 2
MaxDrafts == 2
MaxMappings == 1

\* ------------------------------------------------------------- small sets
\* the keys createProject hands out, in this order
ProjectIds == {1}
\* an id that createProject never hands out (a request naming a missing project)
UnknownProject == 0
Frameworks == {"HIPAA"}
StatusInputs == {<<>>, <<"completed">>}
\* what becomes of an uploaded file: "rejected" fails the fileFilter or the
\* size limit of the multer middleware (the same conditions as validateFile),
\* "unparsable" passes them and makes parseDocument throw, "valid" is parsed
FileKinds == {"valid", "unparsable", "rejected"}
\* the files a client uploads in Spec
Files == {[name |-> "a.txt", kind |-> k] : k \in FileKinds}

Null == <<>>
Some(v) == <<v>>
\* JavaScript truthiness of an optional number (undefined, null, NaN, 0 are falsy)
TruthyNum(o) == o # <<>> /\ o[1] # 0
\* JavaScript truthiness of an optional boolean
TruthyBool(o) == o # <<>> /\ o[1]
\* n || d for an optional number
NumOr(o, d) == IF TruthyNum(o) THEN o[1] ELSE d
\* n || null for an optional number
NumOrNull(o) == IF TruthyNum(o) THEN o ELSE Null
\* b || false for an optional boolean
BoolOrFalse(o) == TruthyBool(o)
\* b || null for a boolean
BoolOrNull(b) == IF b THEN Some(TRUE) ELSE Null

SeqsUpTo(S, n) == UNION {[1..k -> S] : k \in 0..n}

\* ----------------------------------------------------------- string tools
DigitChar == <<"0", "1", "2", "3", "4", "5", "6", "7", "8", "9">>

RECURSIVE ToStr(_)
\* String(n) for a natural number
ToStr(n) == IF n < 10 THEN <<DigitChar[n + 1]>>
            ELSE ToStr(n \div 10) \o <<DigitChar[(n % 10) + 1]>>

RECURSIVE PadStart(_, _, _)
\* s.padStart(len, c)
PadStart(s, len, c) == IF Len(s) >= len THEN s ELSE PadStart(<<c>> \o s, len, c)

\* a key generator that hands out the same key again
Uuid_Reused(map, n) == <<"uuid-", map, "-">> \o ToStr(1)

\* randomUUID(): the n-th fresh key of one Map of MemStorage
Uuid(map, n) == <<"uuid-", map, "-">> \o ToStr(n)

\* `TC-${String(n).padStart(3, '0')}`
TestCaseLabel(n) == <<"T", "C", "-">> \o PadStart(ToStr(n), 3, "0")

\* `REQ-${String(index + 1).padStart(3, '0')}` (index is 0-based)
FallbackRequirementLabel(index) == <<"R", "E", "Q", "-">> \o PadStart(ToStr(index + 1), 3, "0")

\* a percentage that is cut at 100
RoundedPercent_Capped(m, n) ==
    IF n = 0 THEN Null
    ELSE IF m >= n THEN Some(100) ELSE Some((200 * m + n) \div (2 * n))

\* Math.round(m / n * 100); NaN (0/0) is Null
RoundedPercent(m, n) == IF n = 0 THEN Null ELSE Some((200 * m + n) \div (2 * n))

\* ------------------------------------------------------- adapter results
\* items of the upstream extraction response (requirementId omitted: <<>>)
ExtractedItems == {[requirementId |-> <<>>, confidence |-> Some(90)]}
\* draft test cases of the upstream generation response
TestCaseDrafts == {[isEdgeCase |-> Some(TRUE), confidence |-> Null]}
\* draft compliance mappings of the upstream generation response
MappingDrafts == {[section |-> "164.312(a)(1)", confidence |-> Some(80)]}

\* extractRequirements either throws or returns the converted list
ExtractOutcomes == {[ok |-> FALSE, items |-> <<>>]}
                   \cup {[ok |-> TRUE, items |-> s] : s \in SeqsUpTo(ExtractedItems, MaxReqs)}
\* generateTestCases either throws or returns drafts
GenOutcomes == {[ok |-> FALSE, testCases |-> <<>>, complianceMappings |-> <<>>]}
               \cup {[ok |-> TRUE, testCases |-> t, complianceMappings |-> m] :
                       t \in SeqsUpTo(TestCaseDrafts, MaxDrafts),
                       m \in SeqsUpTo(MappingDrafts, MaxMappings)}

\* ------------------------------------------------------------------ state
VARIABLES
    projects,            \* MemStorage.projects: created id -> Project
    documents,           \* MemStorage.documents, in insertion order
    requirements,        \* MemStorage.requirements
    testCases,           \* MemStorage.testCases
    complianceMappings,  \* MemStorage.complianceMappings
    aiExplanations,      \* MemStorage.aiExplanations
    storageUp,           \* FALSE while repository calls reject
    httpStatus,          \* status code of the last answer that was recorded
    pc,                  \* position of the process handler, per project
    stream,              \* "none", "open" (writeHead done) or "ended" (res.end done)
    events,              \* frames written with res.write, in order
    readerClosed,        \* the reader of the stream has gone away
    storedReqs,          \* storedRequirements of the handler
    idx,                 \* 1-based position of the for-of loop
    acc,                 \* testCases / complianceMappings / explanations of the generator
    summary,             \* testCaseResult.summary
    genCalls,            \* Requirement.id of every generateTestCases call, in order
    genResults,          \* what each of those calls settled with, in order
    extracted,           \* what extractRequirements settled with (<<>>: not yet)
    runsLeft             \* streams this behaviour may still open

repoVars == <<projects, documents, requirements, testCases, complianceMappings,
              aiExplanations>>
runVars == <<pc, stream, events, readerClosed, storedReqs, idx, acc, summary,
             genCalls, genResults, extracted, runsLeft>>
vars == <<projects, documents, requirements, testCases, complianceMappings,
          aiExplanations, storageUp, httpStatus, pc, stream, events,
          readerClosed, storedReqs, idx, acc, summary, genCalls, genResults, extracted,
          runsLeft>>

EmptyAcc == [testCases |-> <<>>, complianceMappings |-> <<>>, explanations |-> <<>>]
NoSummary == [totalTestCases |-> 0, edgeCases |-> 0, complianceCoverage |-> Null]

\* the handlers of the projects ids are idle; the repository holds the projects
\* ps and the documents ds, and the behaviour may open runs streams
InitOf(ids, ps, ds, runs) ==
    /\ projects = ps
    /\ documents = ds
    /\ requirements = <<>>
    /\ testCases = <<>>
    /\ complianceMappings = <<>>
    /\ aiExplanations = <<>>
    /\ storageUp = TRUE
    /\ httpStatus = 0
    /\ pc = [p \in ids |-> "idle"]
    /\ stream = [p \in ids |-> "none"]
    /\ events = [p \in ids |-> <<>>]
    /\ readerClosed = [p \in ids |-> FALSE]
    /\ storedReqs = [p \in ids |-> <<>>]
    /\ idx = [p \in ids |-> 1]
    /\ acc = [p \in ids |-> EmptyAcc]
    /\ summary = [p \in ids |-> NoSummary]
    /\ genCalls = [p \in ids |-> <<>>]
    /\ genResults = [p \in ids |-> <<>>]
    /\ extracted = [p \in ids |-> <<>>]
    /\ runsLeft = runs

\* the state after construction; one processing run (a second run on stored
\* results is a scenario of its own)
Init == InitOf(ProjectIds, <<>>, <<>>, 1)

\* ------------------------------------------------------------- repository
\* map.set(x.id, x): an entry with this key is replaced where it stands, a
\* new key is added at the end
MapSet(map, x) ==
    IF \E i \in 1..Len(map) : map[i].id = x.id
    THEN [i \in 1..Len(map) |-> IF map[i].id = x.id THEN x ELSE map[i]]
    ELSE Append(map, x)

RECURSIVE MapSetAll(_, _)
\* map.set for every entity of a bulk create, in order
MapSetAll(map, created) ==
    IF created = <<>> THEN map
    ELSE MapSetAll(MapSet(map, Head(created)), Tail(created))

\* a list operation without its filter
ByProject_Unfiltered(coll, projectId) == coll

\* Array.from(map.values()).filter(x => x.projectId === projectId)
ByProject(coll, projectId) ==
    LET Mine(x) == x.projectId = projectId IN SelectSeq(coll, Mine)

getDocumentsByProject(projectId) == ByProject(documents, projectId)
getRequirementsByProject(projectId) == ByProject(requirements, projectId)
getTestCasesByProject(projectId) == ByProject(testCases, projectId)
getComplianceMappingsByProject(projectId) == ByProject(complianceMappings, projectId)
getAiExplanationsByProject(projectId) == ByProject(aiExplanations, projectId)

\* MemStorage.createRequirement
createRequirement(ins, id) ==
    [id |-> id, projectId |-> ins.projectId, requirementId |-> ins.requirementId,
     confidence |-> NumOrNull(Some(ins.confidence))]

\* MemStorage.createTestCase
createTestCase(ins, id) ==
    [id |-> id, projectId |-> ins.projectId, requirementId |-> ins.requirementId,
     testCaseId |-> ins.testCaseId, isEdgeCase |-> BoolOrNull(ins.isEdgeCase)]

\* MemStorage.createComplianceMapping
createComplianceMapping(ins, id) ==
    [id |-> id, projectId |-> ins.projectId, requirementId |-> ins.requirementId,
     section |-> ins.section, confidence |-> ins.confidence, framework |-> ins.framework]

\* MemStorage.createAiExplanation
createAiExplanation(ins, id) ==
    [id |-> id, projectId |-> ins.projectId, type |-> ins.type,
     entityId |-> ins.entityId, confidence |-> ins.confidence]

\* the bulk creates: one create per item, in input order, each with a fresh
\* id; the result is what the call adds to its Map
createRequirements_Reversed(inserts) ==
    [i \in 1..Len(inserts) |->
       createRequirement(inserts[Len(inserts) - i + 1], Uuid("requirements", Len(requirements) + i))]
createRequirements(inserts) ==
    [i \in 1..Len(inserts) |-> createRequirement(inserts[i], Uuid("requirements", Len(requirements) + i))]
createTestCases(inserts) ==
    [i \in 1..Len(inserts) |-> createTestCase(inserts[i], Uuid("testCases", Len(testCases) + i))]
createComplianceMappings(inserts) ==
    [i \in 1..Len(inserts) |-> createComplianceMapping(inserts[i], Uuid("complianceMappings", Len(complianceMappings) + i))]
createAiExplanations(inserts) ==
    [i \in 1..Len(inserts) |-> createAiExplanation(inserts[i], Uuid("aiExplanations", Len(aiExplanations) + i))]

\* an update that builds the new record and forgets this.projects.set
updateProject_NoSet(id, status) == projects

\* MemStorage.updateProject(id, { status })
updateProject(id, status) ==
    IF id \in DOMAIN projects
    THEN [projects EXCEPT ![id] = [@ EXCEPT !.status = status]]
    ELSE projects

\* ------------------------------------------------------- gemini adapters
\* extractRequirements, lines 104-112: upstream item -> InsertRequirement
\* (index is 0-based; projectId is set by the caller)
ConvertExtracted(item, index, projectId) ==
    [projectId |-> projectId,
     requirementId |-> IF item.requirementId # <<>> THEN item.requirementId
                       ELSE FallbackRequirementLabel(index),
     confidence |-> NumOr(item.confidence, 85)]

\* extractRequirements(...) followed by requirements.map(req => ({...req, projectId}))
InsertRequirementsOf(items, projectId) ==
    [i \in 1..Len(items) |-> ConvertExtracted(items[i], i - 1, projectId)]

\* ---------------------------------------------------- TestCaseGenerator
\* the number in the test-case id: testCases.length + index + 1, where
\* testCases is the accumulator of the whole run at the time of the callback
TestCaseNumber(len, index) == len + index + 1

\* a callback that links the test case to the label of the requirement
PushTestCase_ByLabel(a, tc, index, projectId, requirement) ==
    LET testCaseId == TestCaseLabel(TestCaseNumber(Len(a.testCases), index)) IN
    [a EXCEPT
       !.testCases = Append(@, [projectId |-> projectId,
                                requirementId |-> requirement.requirementId,
                                testCaseId |-> testCaseId,
                                isEdgeCase |-> BoolOrFalse(tc.isEdgeCase)]),
       !.explanations = Append(@, [projectId |-> projectId,
                                   type |-> "test_generation",
                                   entityId |-> testCaseId,
                                   confidence |-> Some(NumOr(tc.confidence, 85))])]

\* one callback of testCaseResult.testCases.forEach (lines 39-66)
PushTestCase(a, tc, index, projectId, requirement) ==
    LET testCaseId == TestCaseLabel(TestCaseNumber(Len(a.testCases), index)) IN
    [a EXCEPT
       !.testCases = Append(@, [projectId |-> projectId,
                                requirementId |-> requirement.id,
                                testCaseId |-> testCaseId,
                                isEdgeCase |-> BoolOrFalse(tc.isEdgeCase)]),
       !.explanations = Append(@, [projectId |-> projectId,
                                   type |-> "test_generation",
                                   entityId |-> testCaseId,
                                   confidence |-> Some(NumOr(tc.confidence, 85))])]

\* one callback of testCaseResult.complianceMappings.forEach (lines 70-91)
PushMapping(a, mapping, projectId, requirement, framework) ==
    [a EXCEPT
       !.complianceMappings = Append(@, [projectId |-> projectId,
                                         requirementId |-> requirement.id,
                                         section |-> mapping.section,
                                         confidence |-> mapping.confidence,
                                         framework |-> framework]),
       !.explanations = Append(@, [projectId |-> projectId,
                                   type |-> "compliance_mapping",
                                   entityId |-> requirement.id,
                                   confidence |-> mapping.confidence])]

RECURSIVE PushTestCases(_, _, _, _, _)
\* testCaseResult.testCases.forEach, from 0-based index on
PushTestCases(a, drafts, index, projectId, requirement) ==
    IF index >= Len(drafts) THEN a
    ELSE PushTestCases(PushTestCase(a, drafts[index + 1], index, projectId, requirement),
                       drafts, index + 1, projectId, requirement)

RECURSIVE PushMappings(_, _, _, _, _, _)
\* testCaseResult.complianceMappings.forEach
PushMappings(a, drafts, index, projectId, requirement, framework) ==
    IF index >= Len(drafts) THEN a
    ELSE PushMappings(PushMapping(a, drafts[index + 1], projectId, requirement, framework),
                      drafts, index + 1, projectId, requirement, framework)

\* the try block of one loop iteration after generateTestCases has returned
OnGenerated(a, result, projectId, requirement, framework) ==
    PushMappings(PushTestCases(a, result.testCases, 0, projectId, requirement),
                 result.complianceMappings, 0, projectId, requirement, framework)

\* a catch block that only logs
OnGenerationError_LogOnly(a, projectId, requirement) == a

\* the catch block of one loop iteration (lines 94-107)
OnGenerationError(a, projectId, requirement) ==
    [a EXCEPT !.explanations = Append(@, [projectId |-> projectId,
                                          type |-> "test_generation",
                                          entityId |-> requirement.id,
                                          confidence |-> Some(0)])]

\* a loop without its own try/catch: the error reaches the handler's catch
AfterGenerationError_Abort == "catch_update"

\* where the loop goes after the catch block of an iteration: the next iteration
AfterGenerationError == "loop"

\* a loop that walks the list from its end
LoopRequirement_Reversed(reqs, i) == reqs[Len(reqs) - i + 1]

\* requirement handed to the adapter in the i-th iteration of the for-of loop
LoopRequirement(reqs, i) == reqs[i]

\* lines 110-122
SummaryOf(a, reqs) ==
    LET Edge(tc) == tc.isEdgeCase IN
    [totalTestCases |-> Len(a.testCases),
     edgeCases |-> Len(SelectSeq(a.testCases, Edge)),
     complianceCoverage |-> RoundedPercent(Len(a.complianceMappings), Len(reqs))]

\* ------------------------------------------------------------ the stream
Event(step, status) == [step |-> step, status |-> status, summary |-> Null]

ParsingStep == <<"Document parsing completed">>
ExtractionStep == <<"Requirements extracted using Gemini API">>
MappingStep(framework) == <<"Mapping to ", framework, " compliance framework">>
GenerationStep == <<"Generating test cases">>
CompletedStep == <<"Processing completed">>
FailedStep == <<"Processing failed">>

\* frames written before the extraction adapter is awaited (lines 157-168)
OpeningEvents == <<Event(ParsingStep, "completed"), Event(ExtractionStep, "processing")>>

\* the generation frame written before the mapping step is closed
AfterExtractionEvents_Reordered(framework) ==
    <<Event(ExtractionStep, "completed"),
      Event(MappingStep(framework), "processing"),
      Event(GenerationStep, "processing"),
      Event(MappingStep(framework), "completed")>>

\* frames written between createRequirements and the generator (lines 176-202)
AfterExtractionEvents(framework) ==
    <<Event(ExtractionStep, "completed"),
      Event(MappingStep(framework), "processing"),
      Event(MappingStep(framework), "completed"),
      Event(GenerationStep, "processing")>>

\* lines 216-221
GenerationCompletedEvent == Event(GenerationStep, "completed")

\* lines 227-232
FinalEvent(s) == [step |-> CompletedStep, status |-> "completed", summary |-> Some(s)]

\* lines 240-244
FailureEvent == Event(FailedStep, "failed")

\* status written on the success path (line 224)
SuccessStatus == "completed"

\* an extraction error that is swallowed: the run goes on with what is stored
AfterExtractionError_Swallowed == "loop"

\* where the handler goes when extractRequirements throws: the catch of line 236
AfterExtractionError == "catch_update"

IsTerminal(e) == e.step \in {CompletedStep, FailedStep}

\* ----------------------------------------------------------- the results
\* a matrix that links by the label of the requirement instead of its key
generateTraceabilityMatrix_ByLabel(reqs, tcs, cms) ==
    [i \in 1..Len(reqs) |->
       LET requirement == reqs[i]
           Linked(x) == x.requirementId = requirement.requirementId
           Edge(tc) == TruthyBool(tc.isEdgeCase)
           linkedTestCases == SelectSeq(tcs, Linked)
           linkedMappings == SelectSeq(cms, Linked)
       IN [requirement |-> requirement,
           testCases |-> linkedTestCases,
           complianceMappings |-> linkedMappings,
           coverage |-> IF Len(linkedTestCases) > 0 THEN 100 ELSE 0,
           testCaseCount |-> Len(linkedTestCases),
           edgeCaseCount |-> Len(SelectSeq(linkedTestCases, Edge))]]

\* TestCaseGenerator.generateTraceabilityMatrix (part_006 lines 142-162)
generateTraceabilityMatrix(reqs, tcs, cms) ==
    [i \in 1..Len(reqs) |->
       LET requirement == reqs[i]
           Linked(x) == x.requirementId = requirement.id
           Edge(tc) == TruthyBool(tc.isEdgeCase)
           linkedTestCases == SelectSeq(tcs, Linked)
           linkedMappings == SelectSeq(cms, Linked)
       IN [requirement |-> requirement,
           testCases |-> linkedTestCases,
           complianceMappings |-> linkedMappings,
           coverage |-> IF Len(linkedTestCases) > 0 THEN 100 ELSE 0,
           testCaseCount |-> Len(linkedTestCases),
           edgeCaseCount |-> Len(SelectSeq(linkedTestCases, Edge))]]

\* the summary of GET /api/projects/:id/results (routes lines 274-292)
ResultsSummary(reqs, tcs, cms) ==
    LET Edge(tc) == TruthyBool(tc.isEdgeCase) IN
    [requirementsCount |-> Len(reqs),
     testCasesCount |-> Len(tcs),
     complianceCoverage |-> IF Len(reqs) > 0 THEN RoundedPercent(Len(cms), Len(reqs))
                            ELSE Some(0),
     edgeCasesCount |-> Len(SelectSeq(tcs, Edge))]

\* GET /api/projects/:id/results (routes lines 258-306): the five reads are
\* made in one turn of the event loop, so the answer is a function of the
\* repository at the time of the request
FetchResults(projectId) ==
    IF projectId \notin DOMAIN projects
    THEN [status |-> 404]
    ELSE LET reqs == getRequirementsByProject(projectId)
             tcs == getTestCasesByProject(projectId)
             cms == getComplianceMappingsByProject(projectId)
         IN [status |-> 200,
             project |-> projects[projectId],
             summary |-> ResultsSummary(reqs, tcs, cms),
             requirements |-> reqs,
             testCases |-> tcs,
             complianceMappings |-> cms,
             explanations |-> getAiExplanationsByProject(projectId),
             traceabilityMatrix |-> generateTraceabilityMatrix(reqs, tcs, cms)]

\* ---------------------------------------------------------------- actions
\* POST /api/projects (routes lines 38-49) with MemStorage.createProject
CreateProject ==
    /\ storageUp
    /\ DOMAIN pc \ DOMAIN projects # {}
    /\ \E fw \in Frameworks, st \in StatusInputs :
         LET id == CHOOSE i \in DOMAIN pc \ DOMAIN projects :
                     \A j \in DOMAIN pc \ DOMAIN projects : i <= j
         IN
         projects' = projects @@ (id :> [id |-> id, complianceFramework |-> fw,
                                         status |-> IF st # <<>> THEN st[1] ELSE "processing"])
    /\ UNCHANGED <<documents, requirements, testCases, complianceMappings, aiExplanations,
                   storageUp, httpStatus>>
    /\ UNCHANGED runVars

RECURSIVE StoreFiles(_, _, _)
\* the for-of loop of the upload handler (lines 77-106): a file that fails
\* validateFile / parseDocument / createDocument is skipped
StoreFiles(docs, files, projectId) ==
    IF files = <<>> THEN docs
    ELSE IF Head(files).kind = "valid" /\ storageUp
         THEN StoreFiles(MapSet(docs, [id |-> Uuid("document", Len(docs) + 1),
                                       projectId |-> projectId,
                                       originalName |-> Head(files).name]),
                         Tail(files), projectId)
         ELSE StoreFiles(docs, Tail(files), projectId)

\* an upload whose middleware drops a refused file and runs the handler on
\* the others
UploadOutcome_FilterSkips(docs, files, projectId) ==
    LET Passed(f) == f.kind # "rejected"
        passed == SelectSeq(files, Passed)
    IN IF passed = <<>> THEN [documents |-> docs, status |-> 400]
       ELSE LET stored == StoreFiles(docs, passed, projectId) IN
            [documents |-> stored, status |-> IF Len(stored) = Len(docs) THEN 400 ELSE 200]

\* POST /api/projects/:id/documents (routes lines 13-33 and 66-119): the
\* repository after the request and the status of the answer.  A file the
\* multer middleware refuses (fileFilter calls cb(new Error), or the size
\* limit is hit) fails the whole request before the handler runs, and the
\* error reaches the default error handler of express (500)
UploadOutcome(docs, files, projectId) ==
    IF \E i \in 1..Len(files) : files[i].kind = "rejected"
    THEN [documents |-> docs, status |-> 500]
    ELSE IF files = <<>>
    THEN [documents |-> docs, status |-> 400]
    ELSE LET stored == StoreFiles(docs, files, projectId) IN
         [documents |-> stored, status |-> IF Len(stored) = Len(docs) THEN 400 ELSE 200]

\* an upload that stores something (the answer is not recorded)
UploadDocuments(id) ==
    /\ \E files \in SeqsUpTo(Files, MaxFiles) :
         LET stored == UploadOutcome(documents, files, id).documents IN
         /\ Len(stored) <= MaxDocs
         /\ stored # documents
         /\ documents' = stored
    /\ UNCHANGED <<projects, requirements, testCases, complianceMappings, aiExplanations,
                   storageUp, httpStatus>>
    /\ UNCHANGED runVars

\* an upload of one of batches, with its answer recorded; at most limit
\* documents are held
UploadRequest(id, batches, limit) ==
    /\ \E files \in batches :
         LET out == UploadOutcome(documents, files, id) IN
         /\ Len(out.documents) <= limit
         /\ documents' = out.documents
         /\ httpStatus' = out.status
    /\ UNCHANGED <<projects, requirements, testCases, complianceMappings, aiExplanations,
                   storageUp>>
    /\ UNCHANGED runVars

\* POST /api/projects/:id/process up to the first adapter call (lines 122-170)
StartProcessing(id) ==
    /\ id \in DOMAIN pc => pc[id] \in {"idle", "done", "crashed"}
    /\ IF ~storageUp
       THEN \* getProject rejects: outer catch, 500
            /\ httpStatus' = 500
            /\ UNCHANGED repoVars
            /\ UNCHANGED runVars
       ELSE IF id \notin DOMAIN projects
       THEN /\ httpStatus' = 404
            /\ UNCHANGED repoVars
            /\ UNCHANGED runVars
       ELSE IF getDocumentsByProject(id) = <<>>
       THEN /\ projects' = updateProject(id, "processing")
            /\ httpStatus' = 400
            /\ UNCHANGED <<documents, requirements, testCases, complianceMappings,
                           aiExplanations>>
            /\ UNCHANGED runVars
       ELSE /\ runsLeft > 0
            /\ runsLeft' = runsLeft - 1
            /\ projects' = updateProject(id, "processing")
            /\ httpStatus' = 200
            /\ stream' = [stream EXCEPT ![id] = "open"]
            /\ events' = [events EXCEPT ![id] = OpeningEvents]
            /\ readerClosed' = [readerClosed EXCEPT ![id] = FALSE]
            /\ storedReqs' = [storedReqs EXCEPT ![id] = <<>>]
            /\ idx' = [idx EXCEPT ![id] = 1]
            /\ acc' = [acc EXCEPT ![id] = EmptyAcc]
            /\ summary' = [summary EXCEPT ![id] = NoSummary]
            /\ genCalls' = [genCalls EXCEPT ![id] = <<>>]
            /\ genResults' = [genResults EXCEPT ![id] = <<>>]
            /\ extracted' = [extracted EXCEPT ![id] = <<>>]
            /\ pc' = [pc EXCEPT ![id] = "extracting"]
            /\ UNCHANGED <<documents, requirements, testCases, complianceMappings,
                           aiExplanations>>
    /\ UNCHANGED storageUp

\* extractRequirements settles; lines 170-204 and the entry of generateFromRequirements
\* (outcomes: what the adapter may settle with)
ExtractReturnOf(p, outcomes) ==
    /\ pc[p] = "extracting"
    /\ \E out \in outcomes :
         /\ extracted' = [extracted EXCEPT ![p] = Some(out)]
         /\ IF ~out.ok
            THEN /\ pc' = [pc EXCEPT ![p] = AfterExtractionError]
                 /\ UNCHANGED <<requirements, events, storedReqs>>
            ELSE IF ~storageUp
            THEN \* createRequirements rejects
                 /\ pc' = [pc EXCEPT ![p] = "catch_update"]
                 /\ UNCHANGED <<requirements, events, storedReqs>>
            ELSE LET created == createRequirements(InsertRequirementsOf(out.items, p))
                     all == MapSetAll(requirements, created)
                 IN
                 /\ requirements' = all
                 /\ events' = [events EXCEPT ![p] =
                                 @ \o AfterExtractionEvents(projects[p].complianceFramework)]
                 \* storage.getRequirementsByProject(projectId) of line 204
                 /\ storedReqs' = [storedReqs EXCEPT ![p] = ByProject(all, p)]
                 /\ pc' = [pc EXCEPT ![p] = "loop"]
    /\ UNCHANGED <<projects, documents, testCases, complianceMappings, aiExplanations,
                   storageUp, httpStatus, stream, readerClosed, idx, acc, summary,
                   genCalls, genResults, runsLeft>>

ExtractReturn(p) == ExtractReturnOf(p, ExtractOutcomes)

\* the for-of loop takes the next requirement and awaits generateTestCases (line 36)
GenCall(p) ==
    /\ pc[p] = "loop"
    /\ idx[p] <= Len(storedReqs[p])
    /\ genCalls' = [genCalls EXCEPT ![p] = Append(@, LoopRequirement(storedReqs[p], idx[p]).id)]
    /\ pc' = [pc EXCEPT ![p] = "generating"]
    /\ UNCHANGED repoVars
    /\ UNCHANGED <<storageUp, httpStatus, stream, events, readerClosed, storedReqs, idx,
                   acc, summary, genResults, extracted, runsLeft>>

\* generateTestCases settles: the rest of the try block or the catch block
\* (outcomes: what the adapter may settle with)
GenReturnOf(p, outcomes) ==
    /\ pc[p] = "generating"
    /\ LET requirement == LoopRequirement(storedReqs[p], idx[p]) IN
       \E out \in outcomes :
         /\ genResults' = [genResults EXCEPT ![p] = Append(@, out)]
         /\ IF out.ok
            THEN /\ acc' = [acc EXCEPT ![p] =
                              OnGenerated(@, out, p, requirement, projects[p].complianceFramework)]
                 /\ pc' = [pc EXCEPT ![p] = "loop"]
            ELSE /\ acc' = [acc EXCEPT ![p] = OnGenerationError(@, p, requirement)]
                 /\ pc' = [pc EXCEPT ![p] = AfterGenerationError]
    /\ idx' = [idx EXCEPT ![p] = @ + 1]
    /\ UNCHANGED repoVars
    /\ UNCHANGED <<storageUp, httpStatus, stream, events, readerClosed, storedReqs,
                   summary, genCalls, extracted, runsLeft>>

GenReturn(p) == GenReturnOf(p, GenOutcomes)

\* the loop is exhausted: lines 110-122, the generator returns
GenDone(p) ==
    /\ pc[p] = "loop"
    /\ idx[p] > Len(storedReqs[p])
    /\ summary' = [summary EXCEPT ![p] = SummaryOf(acc[p], storedReqs[p])]
    /\ pc' = [pc EXCEPT ![p] = "store_tc"]
    /\ UNCHANGED repoVars
    /\ UNCHANGED <<storageUp, httpStatus, stream, events, readerClosed, storedReqs, idx,
                   acc, genCalls, genResults, extracted, runsLeft>>

\* await storage.createTestCases(testCaseResult.testCases) (line 212)
StoreTestCases(p) ==
    /\ pc[p] = "store_tc"
    /\ IF storageUp
       THEN /\ testCases' = MapSetAll(testCases, createTestCases(acc[p].testCases))
            /\ pc' = [pc EXCEPT ![p] = "store_cm"]
       ELSE /\ pc' = [pc EXCEPT ![p] = "catch_update"]
            /\ UNCHANGED testCases
    /\ UNCHANGED <<projects, documents, requirements, complianceMappings, aiExplanations,
                   storageUp, httpStatus, stream, events, readerClosed, storedReqs, idx,
                   acc, summary, genCalls, genResults, extracted, runsLeft>>

\* await storage.createComplianceMappings(...) (line 213)
StoreMappings(p) ==
    /\ pc[p] = "store_cm"
    /\ IF storageUp
       THEN /\ complianceMappings' =
                 MapSetAll(complianceMappings,
                           createComplianceMappings(acc[p].complianceMappings))
            /\ pc' = [pc EXCEPT ![p] = "store_exp"]
       ELSE /\ pc' = [pc EXCEPT ![p] = "catch_update"]
            /\ UNCHANGED complianceMappings
    /\ UNCHANGED <<projects, documents, requirements, testCases, aiExplanations,
                   storageUp, httpStatus, stream, events, readerClosed, storedReqs, idx,
                   acc, summary, genCalls, genResults, extracted, runsLeft>>

\* await storage.createAiExplanations(...) and the frame of lines 214-221
StoreExplanations(p) ==
    /\ pc[p] = "store_exp"
    /\ IF storageUp
       THEN /\ aiExplanations' =
                 MapSetAll(aiExplanations, createAiExplanations(acc[p].explanations))
            /\ events' = [events EXCEPT ![p] = Append(@, GenerationCompletedEvent)]
            /\ pc' = [pc EXCEPT ![p] = "set_completed"]
       ELSE /\ pc' = [pc EXCEPT ![p] = "catch_update"]
            /\ UNCHANGED <<aiExplanations, events>>
    /\ UNCHANGED <<projects, documents, requirements, testCases, complianceMappings,
                   storageUp, httpStatus, stream, readerClosed, storedReqs, idx,
                   acc, summary, genCalls, genResults, extracted, runsLeft>>

\* await storage.updateProject(projectId, { status: "completed" }) (line 224)
SetCompleted(p) ==
    /\ pc[p] = "set_completed"
    /\ IF storageUp
       THEN /\ projects' = updateProject(p, SuccessStatus)
            /\ pc' = [pc EXCEPT ![p] = "emit_completed"]
       ELSE /\ pc' = [pc EXCEPT ![p] = "catch_update"]
            /\ UNCHANGED projects
    /\ UNCHANGED <<documents, requirements, testCases, complianceMappings, aiExplanations,
                   storageUp, httpStatus, stream, events, readerClosed,
                   storedReqs, idx, acc, summary, genCalls, genResults, extracted, runsLeft>>

\* the final frame and res.end() (lines 227-234)
EmitCompleted(p) ==
    /\ pc[p] = "emit_completed"
    /\ events' = [events EXCEPT ![p] = Append(@, FinalEvent(summary[p]))]
    /\ stream' = [stream EXCEPT ![p] = "ended"]
    /\ pc' = [pc EXCEPT ![p] = "done"]
    /\ UNCHANGED repoVars
    /\ UNCHANGED <<storageUp, httpStatus, readerClosed, storedReqs, idx, acc, summary,
                   genCalls, genResults, extracted, runsLeft>>

\* catch of line 236: await storage.updateProject(projectId, { status: "failed" }).
\* When that rejects, the outer catch calls res.status(500).json(...) after the
\* headers were sent, which throws: the handler ends without frame and without res.end()
CatchUpdate(p) ==
    /\ pc[p] = "catch_update"
    /\ IF storageUp
       THEN /\ projects' = updateProject(p, "failed")
            /\ pc' = [pc EXCEPT ![p] = "catch_emit"]
       ELSE /\ pc' = [pc EXCEPT ![p] = "crashed"]
            /\ UNCHANGED projects
    /\ UNCHANGED <<documents, requirements, testCases, complianceMappings, aiExplanations,
                   storageUp, httpStatus, stream, events, readerClosed,
                   storedReqs, idx, acc, summary, genCalls, genResults, extracted, runsLeft>>

\* the failure frame and res.end() (lines 240-246)
CatchEmit(p) ==
    /\ pc[p] = "catch_emit"
    /\ events' = [events EXCEPT ![p] = Append(@, FailureEvent)]
    /\ stream' = [stream EXCEPT ![p] = "ended"]
    /\ pc' = [pc EXCEPT ![p] = "done"]
    /\ UNCHANGED repoVars
    /\ UNCHANGED <<storageUp, httpStatus, readerClosed, storedReqs, idx, acc, summary,
                   genCalls, genResults, extracted, runsLeft>>

\* the reader of the event stream goes away (reader.cancel, tab closed)
ClientClose(p) ==
    /\ stream[p] = "open"
    /\ ~readerClosed[p]
    /\ readerClosed' = [readerClosed EXCEPT ![p] = TRUE]
    /\ UNCHANGED repoVars
    /\ UNCHANGED <<storageUp, httpStatus, pc, stream, events, storedReqs, idx, acc,
                   summary, genCalls, genResults, extracted, runsLeft>>

\* the repository starts / stops rejecting its calls
StorageFault ==
    /\ storageUp' = ~storageUp
    /\ UNCHANGED repoVars
    /\ UNCHANGED httpStatus
    /\ UNCHANGED runVars

Next ==
    \/ CreateProject
    \/ \E id \in DOMAIN pc : UploadDocuments(id)
    \/ \E id \in DOMAIN pc \cup {UnknownProject} : StartProcessing(id)
    \/ \E p \in DOMAIN pc : ExtractReturn(p)
    \/ \E p \in DOMAIN pc : GenCall(p)
    \/ \E p \in DOMAIN pc : GenReturn(p)
    \/ \E p \in DOMAIN pc : GenDone(p)
    \/ \E p \in DOMAIN pc : StoreTestCases(p)
    \/ \E p \in DOMAIN pc : StoreMappings(p)
    \/ \E p \in DOMAIN pc : StoreExplanations(p)
    \/ \E p \in DOMAIN pc : SetCompleted(p)
    \/ \E p \in DOMAIN pc : EmitCompleted(p)
    \/ \E p \in DOMAIN pc : CatchUpdate(p)
    \/ \E p \in DOMAIN pc : CatchEmit(p)
    \/ \E p \in DOMAIN pc : ClientClose(p)

Spec == Init /\ [][Next]_vars

\* the same program on a repository whose calls may reject
NextStorageFault == Next \/ StorageFault

SpecStorageFault == Init /\ [][NextStorageFault]_vars

\* ---------------------------------------------- two projects, two streams
\* the keys createProject hands out when two projects are submitted
TwoProjectIds == {1, 2}

\* two projects have been submitted (POST /api/projects) and one file has been
\* uploaded to each (POST /api/projects/:id/documents); no stream is open yet
InitTwoProjects ==
    InitOf(TwoProjectIds,
           [p \in TwoProjectIds |->
              [id |-> p, complianceFramework |-> "HIPAA", status |-> "processing"]],
           <<[id |-> Uuid("document", 1), projectId |-> 1, originalName |-> "a.txt"],
             [id |-> Uuid("document", 2), projectId |-> 2, originalName |-> "a.txt"]>>,
           2)

\* the process handlers of the two projects, interleaved at their awaits;
\* each project is processed once
NextTwoProjects ==
    \/ \E id \in DOMAIN pc : stream[id] = "none" /\ StartProcessing(id)
    \/ \E p \in DOMAIN pc : ExtractReturn(p)
    \/ \E p \in DOMAIN pc : GenCall(p)
    \/ \E p \in DOMAIN pc : GenReturn(p)
    \/ \E p \in DOMAIN pc : GenDone(p)
    \/ \E p \in DOMAIN pc : StoreTestCases(p)
    \/ \E p \in DOMAIN pc : StoreMappings(p)
    \/ \E p \in DOMAIN pc : StoreExplanations(p)
    \/ \E p \in DOMAIN pc : SetCompleted(p)
    \/ \E p \in DOMAIN pc : EmitCompleted(p)
    \/ \E p \in DOMAIN pc : CatchUpdate(p)
    \/ \E p \in DOMAIN pc : CatchEmit(p)

SpecTwoProjects == InitTwoProjects /\ [][NextTwoProjects]_vars

\* ------------------------------------------- one project, processed again
\* what the adapters returned in the first run of the project: one item, and
\* for it one draft test case and one draft mapping
FirstExtracted == [ok |-> TRUE, items |-> <<[requirementId |-> <<>>, confidence |-> Some(90)]>>]
FirstGenerated ==
    [ok |-> TRUE,
     testCases |-> <<[isEdgeCase |-> Some(TRUE), confidence |-> Null]>>,
     complianceMappings |-> <<[section |-> "164.312(a)(1)", confidence |-> Some(80)]>>]
\* what the first run stored and accumulated
FirstRequirements ==
    LET ins == InsertRequirementsOf(FirstExtracted.items, 1) IN
    [i \in 1..Len(ins) |-> createRequirement(ins[i], Uuid("requirements", i))]
FirstAcc == OnGenerated(EmptyAcc, FirstGenerated, 1, FirstRequirements[1], "HIPAA")

\* the state in which the first run of project 1 has completed (the state Spec
\* reaches with these adapter results), with one more run to come
InitRerun ==
    /\ projects = (1 :> [id |-> 1, complianceFramework |-> "HIPAA", status |-> "completed"])
    /\ documents = <<[id |-> Uuid("document", 1), projectId |-> 1, originalName |-> "a.txt"]>>
    /\ requirements = FirstRequirements
    /\ testCases = [i \in 1..Len(FirstAcc.testCases) |->
                      createTestCase(FirstAcc.testCases[i], Uuid("testCases", i))]
    /\ complianceMappings = [i \in 1..Len(FirstAcc.complianceMappings) |->
                               createComplianceMapping(FirstAcc.complianceMappings[i],
                                                       Uuid("complianceMappings", i))]
    /\ aiExplanations = [i \in 1..Len(FirstAcc.explanations) |->
                           createAiExplanation(FirstAcc.explanations[i],
                                               Uuid("aiExplanations", i))]
    /\ storageUp = TRUE
    /\ httpStatus = 200
    /\ pc = (1 :> "done")
    /\ stream = (1 :> "ended")
    /\ events = (1 :> (OpeningEvents \o AfterExtractionEvents("HIPAA")
                        \o <<GenerationCompletedEvent,
                             FinalEvent(SummaryOf(FirstAcc, FirstRequirements))>>))
    /\ readerClosed = (1 :> FALSE)
    /\ storedReqs = (1 :> FirstRequirements)
    /\ idx = (1 :> 2)
    /\ acc = (1 :> FirstAcc)
    /\ summary = (1 :> SummaryOf(FirstAcc, FirstRequirements))
    /\ genCalls = (1 :> <<FirstRequirements[1].id>>)
    /\ genResults = (1 :> <<FirstGenerated>>)
    /\ extracted = (1 :> Some(FirstExtracted))
    /\ runsLeft = 1

\* the process handler of the project, requested again
NextRerun ==
    \/ \E id \in DOMAIN pc : StartProcessing(id)
    \/ \E p \in DOMAIN pc : ExtractReturn(p)
    \/ \E p \in DOMAIN pc : GenCall(p)
    \/ \E p \in DOMAIN pc : GenReturn(p)
    \/ \E p \in DOMAIN pc : GenDone(p)
    \/ \E p \in DOMAIN pc : StoreTestCases(p)
    \/ \E p \in DOMAIN pc : StoreMappings(p)
    \/ \E p \in DOMAIN pc : StoreExplanations(p)
    \/ \E p \in DOMAIN pc : SetCompleted(p)
    \/ \E p \in DOMAIN pc : EmitCompleted(p)
    \/ \E p \in DOMAIN pc : CatchUpdate(p)
    \/ \E p \in DOMAIN pc : CatchEmit(p)

SpecRerun == InitRerun /\ [][NextRerun]_vars

\* ------------------------------------- adapters that return any confidence
\* confidence values of an upstream response: absent, negative, zero, inside
\* the range, above the range
ConfidenceValues == {Null, Some(-5), Some(0), Some(50), Some(150)}
\* isEdgeCase of an upstream draft: absent, false, true
EdgeCaseValues == {Null, Some(FALSE), Some(TRUE)}

\* responses of at most one item / one draft each, with any confidence
AnyExtractOutcomes ==
    {[ok |-> FALSE, items |-> <<>>]}
    \cup {[ok |-> TRUE, items |-> s] :
            s \in SeqsUpTo({[requirementId |-> <<>>, confidence |-> c] :
                              c \in ConfidenceValues}, 1)}
AnyGenOutcomes ==
    {[ok |-> FALSE, testCases |-> <<>>, complianceMappings |-> <<>>]}
    \cup {[ok |-> TRUE, testCases |-> t, complianceMappings |-> m] :
            t \in SeqsUpTo({[isEdgeCase |-> b, confidence |-> c] :
                              b \in EdgeCaseValues, c \in ConfidenceValues}, 1),
            m \in SeqsUpTo({[section |-> "164.312(a)(1)", confidence |-> c] :
                              c \in ConfidenceValues}, 1)}

\* labels an upstream item may carry: none, or one of the ids the prompt asks for
UpstreamLabels == {<<>>, FallbackRequirementLabel(0), FallbackRequirementLabel(1)}

\* responses whose items carry any of these labels, the labels that are
\* present being pairwise distinct
LabelledExtractOutcomes ==
    {[ok |-> FALSE, items |-> <<>>]}
    \cup {[ok |-> TRUE, items |-> s] :
            s \in {t \in SeqsUpTo({[requirementId |-> l, confidence |-> Some(90)] :
                                     l \in UpstreamLabels}, MaxReqs) :
                     \A i, j \in 1..Len(t) :
                       (i # j /\ t[i].requirementId # <<>>)
                         => t[i].requirementId # t[j].requirementId}}

\* a project has been submitted and a file has been uploaded to it
InitSubmitted ==
    InitOf(ProjectIds,
           [p \in ProjectIds |->
              [id |-> p, complianceFramework |-> "HIPAA", status |-> "processing"]],
           <<[id |-> Uuid("document", 1), projectId |-> 1, originalName |-> "a.txt"]>>,
           1)

\* the process handler with these adapters
NextAnyConfidence ==
    \/ \E id \in DOMAIN pc : StartProcessing(id)
    \/ \E p \in DOMAIN pc : ExtractReturnOf(p, AnyExtractOutcomes)
    \/ \E p \in DOMAIN pc : GenCall(p)
    \/ \E p \in DOMAIN pc : GenReturnOf(p, AnyGenOutcomes)
    \/ \E p \in DOMAIN pc : GenDone(p)
    \/ \E p \in DOMAIN pc : StoreTestCases(p)
    \/ \E p \in DOMAIN pc : StoreMappings(p)
    \/ \E p \in DOMAIN pc : StoreExplanations(p)
    \/ \E p \in DOMAIN pc : SetCompleted(p)
    \/ \E p \in DOMAIN pc : EmitCompleted(p)
    \/ \E p \in DOMAIN pc : CatchUpdate(p)
    \/ \E p \in DOMAIN pc : CatchEmit(p)

SpecAnyConfidence == InitSubmitted /\ [][NextAnyConfidence]_vars

\* the process handler with an extraction adapter whose upstream labels vary
NextAnyLabels ==
    \/ \E id \in DOMAIN pc : StartProcessing(id)
    \/ \E p \in DOMAIN pc : ExtractReturnOf(p, LabelledExtractOutcomes)
    \/ \E p \in DOMAIN pc : GenCall(p)
    \/ \E p \in DOMAIN pc : GenReturn(p)
    \/ \E p \in DOMAIN pc : GenDone(p)
    \/ \E p \in DOMAIN pc : StoreTestCases(p)
    \/ \E p \in DOMAIN pc : StoreMappings(p)
    \/ \E p \in DOMAIN pc : StoreExplanations(p)
    \/ \E p \in DOMAIN pc : SetCompleted(p)
    \/ \E p \in DOMAIN pc : EmitCompleted(p)
    \/ \E p \in DOMAIN pc : CatchUpdate(p)
    \/ \E p \in DOMAIN pc : CatchEmit(p)

SpecAnyLabels == InitSubmitted /\ [][NextAnyLabels]_vars

\* ------------------------------------------------------------ the uploads
MaxBatch == 2
MaxUploaded == 3

\* the files a client may put into one upload request
UploadFiles == {[name |-> n, kind |-> k] : n \in {"a.txt", "b.pdf"}, k \in FileKinds}
UploadBatches == SeqsUpTo(UploadFiles, MaxBatch)

\* a project has been submitted; nothing has been uploaded
InitCreated ==
    InitOf(ProjectIds,
           [p \in ProjectIds |->
              [id |-> p, complianceFramework |-> "HIPAA", status |-> "processing"]],
           <<>>,
           0)

\* upload requests, for the project and for an id that names no project
NextUpload ==
    \E id \in DOMAIN pc \cup {UnknownProject} : UploadRequest(id, UploadBatches, MaxUploaded)

SpecUpload == InitCreated /\ [][NextUpload]_vars

\* ------------------------------------------------------------ properties
Range(s) == {s[i] : i \in 1..Len(s)}
Last(s) == s[Len(s)]
Count(s, Test(_)) == Cardinality({i \in 1..Len(s) : Test(s[i])})
IdsOf(s) == [i \in 1..Len(s) |-> s[i].id]
\* the handler of p has opened a stream and run to its end
Finished(p) == pc[p] = "done"
\* the positions of the calls of p that threw
FailedCalls(p) == {i \in 1..Len(genResults[p]) : ~genResults[p][i].ok}
TerminalCount(p) == Count(events[p], IsTerminal)

\* C1: in one run of generateFromRequirements no two produced test cases carry
\* the same testCaseId.
C1_UniqueTestCaseIds ==
    \A p \in DOMAIN pc :
      \A i, j \in 1..Len(acc[p].testCases) :
        i # j => acc[p].testCases[i].testCaseId # acc[p].testCases[j].testCaseId

\* C2: the k-th test case produced in a run, counted across all requirements,
\* is assigned "TC-" followed by k padded to 3 digits (TC-001..TC-M without gaps).
C2_SequentialTestCaseIds ==
    \A p \in DOMAIN pc :
      \A k \in 1..Len(acc[p].testCases) :
        acc[p].testCases[k].testCaseId = TestCaseLabel(k)

\* C3: when the generation adapter throws for a requirement the run is not
\* aborted: every later requirement is still handed to the adapter in order,
\* what the successful requirements produced is persisted, the project ends
\* completed and the stream ends with the overall-completion frame.
C3_FailureIsolated ==
    \A p \in DOMAIN pc :
      FailedCalls(p) # {} =>
        /\ pc[p] \notin {"catch_update", "catch_emit", "crashed"}
        /\ pc[p] \notin {"loop", "generating"} => genCalls[p] = IdsOf(storedReqs[p])
        /\ Finished(p) =>
             /\ projects[p].status = "completed"
             /\ stream[p] = "ended"
             /\ Last(events[p]).step = CompletedStep
             /\ \A e \in Range(events[p]) : e.step # FailedStep
             /\ \A i \in 1..Len(genResults[p]) :
                  LET Linked(x) == x.projectId = p /\ x.requirementId = genCalls[p][i] IN
                  genResults[p][i].ok =>
                    /\ Count(testCases, Linked) = Len(genResults[p][i].testCases)
                    /\ Count(complianceMappings, Linked)
                         = Len(genResults[p][i].complianceMappings)

C3_Witness ==
    \E p \in DOMAIN pc :
      /\ Finished(p)
      /\ \E i, j \in 1..Len(genResults[p]) :
           /\ i < j
           /\ ~genResults[p][i].ok
           /\ genResults[p][j].ok
           /\ genResults[p][j].testCases # <<>>
           /\ genResults[p][j].complianceMappings # <<>>

\* C4: a requirement whose generation attempt failed has, in the output of the
\* run and in the repository, no test case and no compliance mapping, and
\* exactly one explanation whose entityId is its id, of type test_generation
\* with confidence 0.
C4_FailedRequirementOutput ==
    \A p \in DOMAIN pc :
      \A i \in FailedCalls(p) :
        LET rid == genCalls[p][i]
            Linked(x) == x.projectId = p /\ x.requirementId = rid
            About(x) == x.projectId = p /\ x.entityId = rid
            Failure(x) == About(x) /\ x.type = "test_generation" /\ x.confidence = Some(0)
        IN /\ Count(acc[p].testCases, Linked) = 0
           /\ Count(acc[p].complianceMappings, Linked) = 0
           /\ Count(acc[p].explanations, About) = 1
           /\ Count(acc[p].explanations, Failure) = 1
           /\ Count(testCases, Linked) = 0
           /\ Count(complianceMappings, Linked) = 0
           /\ Finished(p) =>
                /\ Count(aiExplanations, About) = 1
                /\ Count(aiExplanations, Failure) = 1

C4_Witness ==
    \E p \in DOMAIN pc :
      /\ Finished(p)
      /\ FailedCalls(p) # {}
      /\ acc[p].testCases # <<>>

\* C5: when the extraction adapter fails, the project ends failed, exactly one
\* terminal frame (the failure frame) is written, the generation adapter is
\* never called and nothing is persisted for the run.
C5_ExtractionFailureIsFatal ==
    \A p \in DOMAIN pc :
      (extracted[p] # <<>> /\ ~extracted[p][1].ok) =>
        /\ pc[p] \in {"catch_update", "catch_emit", "done"}
        /\ genCalls[p] = <<>>
        /\ getRequirementsByProject(p) = <<>>
        /\ getTestCasesByProject(p) = <<>>
        /\ getComplianceMappingsByProject(p) = <<>>
        /\ getAiExplanationsByProject(p) = <<>>
        /\ Finished(p) =>
             /\ projects[p].status = "failed"
             /\ TerminalCount(p) = 1
             /\ Last(events[p]) = FailureEvent
             /\ stream[p] = "ended"

C5_Witness ==
    \E p \in DOMAIN pc :
      /\ Finished(p)
      /\ extracted[p] # <<>>
      /\ ~extracted[p][1].ok

\* the <<step, status>> pairs of the frames of p
Frames(p) == [i \in 1..Len(events[p]) |-> <<events[p][i].step, events[p][i].status>>]

\* C6: a successful run writes exactly the eight frames parsing completed,
\* extraction processing, extraction completed, mapping processing, mapping
\* completed, generation processing, generation completed, processing
\* completed, in this order; and for no step are there two processing frames
\* without a completed or failed frame of that step between them.
C6_EventSequence ==
    \A p \in DOMAIN pc :
      /\ (Finished(p) /\ projects[p].status = "completed") =>
           Frames(p) = << <<ParsingStep, "completed">>,
                          <<ExtractionStep, "processing">>,
                          <<ExtractionStep, "completed">>,
                          <<MappingStep(projects[p].complianceFramework), "processing">>,
                          <<MappingStep(projects[p].complianceFramework), "completed">>,
                          <<GenerationStep, "processing">>,
                          <<GenerationStep, "completed">>,
                          <<CompletedStep, "completed">> >>
      /\ \A i, j \in 1..Len(events[p]) :
           (/\ i < j
            /\ events[p][i].status = "processing"
            /\ events[p][j].status = "processing"
            /\ events[p][i].step = events[p][j].step)
           => \E k \in (i + 1)..(j - 1) :
                /\ events[p][k].step = events[p][i].step
                /\ events[p][k].status \in {"completed", "failed"}

C6_Witness ==
    \E p \in DOMAIN pc :
      /\ Finished(p)
      /\ projects[p].status = "completed"
      /\ Len(events[p]) = 8

\* C7: every run that has opened the stream ends with exactly one terminal
\* frame, which is the last frame, and with the stream ended, also when a
\* repository call rejects during the run.
C7_TerminalEvent ==
    \A p \in DOMAIN pc :
      pc[p] \in {"done", "crashed"} =>
        /\ TerminalCount(p) = 1
        /\ IsTerminal(Last(events[p]))
        /\ stream[p] = "ended"

\* C8: a run sets Project.status to processing on entry; afterwards the status
\* changes at most once, from processing to completed or failed; the completion
\* frame is written when the stored status is already completed, the failure
\* frame when it is already failed; once the stream has ended the status is
\* not processing.
C8_StatusLifecycle ==
    /\ [](\A p \in DOMAIN pc : stream[p] = "ended" => projects[p].status # "processing")
    /\ [][\A p \in DOMAIN pc :
            /\ (pc[p] # "extracting" /\ pc'[p] = "extracting")
                 => projects'[p].status = "processing"
            /\ (/\ pc[p] \notin {"idle", "done", "crashed"}
                /\ projects'[p].status # projects[p].status)
                 => /\ projects[p].status = "processing"
                    /\ projects'[p].status \in {"completed", "failed"}
            /\ (Len(events'[p]) > Len(events[p]) /\ Last(events'[p]).step = CompletedStep)
                 => projects[p].status = "completed"
            /\ (Len(events'[p]) > Len(events[p]) /\ Last(events'[p]).step = FailedStep)
                 => projects[p].status = "failed"]_vars

C8_Witness ==
    \E p \in DOMAIN pc :
      /\ Finished(p)
      /\ projects[p].status = "completed"
      /\ Last(events[p]).step = CompletedStep

\* C9: once the reader has closed the stream, the run makes no generation
\* adapter call from the next boundary between requirement iterations on.
C9_NoCallAfterReaderClosed ==
    [][\A p \in DOMAIN pc :
         (readerClosed[p] /\ pc[p] = "loop") => genCalls'[p] = genCalls[p]]_vars

\* C10: no generation adapter call starts before the extraction adapter has
\* returned and the requirements are persisted; the calls are made one at a
\* time in the stored order of the requirements, call i+1 only after call i
\* has returned or thrown.
C10_SequentialGeneration ==
    \A p \in DOMAIN pc :
      /\ pc[p] = "extracting" => genCalls[p] = <<>>
      /\ genCalls[p] # <<>> =>
           /\ extracted[p] # <<>>
           /\ extracted[p][1].ok
           /\ Len(getRequirementsByProject(p)) = Len(extracted[p][1].items)
      /\ \A i \in 1..Len(genCalls[p]) :
           /\ i <= Len(getRequirementsByProject(p))
           /\ genCalls[p][i] = getRequirementsByProject(p)[i].id
      /\ Len(genCalls[p]) = Len(genResults[p]) + (IF pc[p] = "generating" THEN 1 ELSE 0)

C10_Witness ==
    \E p \in DOMAIN pc :
      /\ pc[p] = "generating"
      /\ Len(genCalls[p]) = 2
      /\ Len(genResults[p]) = 1

RECURSIVE ReplayRun(_, _, _, _, _, _)
\* the accumulator of a run that is alone: the adapter results folded, from
\* the i-th on, over the requirements of the run
ReplayRun(a, results, reqs, i, projectId, framework) ==
    IF i > Len(results) THEN a
    ELSE ReplayRun(IF results[i].ok
                   THEN OnGenerated(a, results[i], projectId, reqs[i], framework)
                   ELSE OnGenerationError(a, projectId, reqs[i]),
                   results, reqs, i + 1, projectId, framework)
\* the last n entries of a list
Suffix(s, n) == SubSeq(s, Len(s) - n + 1, Len(s))
\* an entity without the key the repository gave it
StripId(x) == [x EXCEPT !.id = <<>>]
StripIds(s) == [i \in 1..Len(s) |-> StripId(s[i])]
\* the handler of p is past the generator
PastGenerator(p) ==
    pc[p] \in {"store_tc", "store_cm", "store_exp", "set_completed", "emit_completed"}
    \/ (pc[p] = "done" /\ projects[p].status = "completed")

\* C11: two runs for two different projects, interleaved at their adapter
\* calls, each build the accumulator (testCaseIds included) that their own
\* adapter results give when folded alone, work on the requirements of their
\* own project only, persist exactly that under their own projectId, and no
\* step of one run changes what the repository lists for the other project
\* or the accumulator of the other run.
C11_RunsIndependent ==
    /\ [](\A p \in DOMAIN pc :
            /\ \A i \in 1..Len(storedReqs[p]) : storedReqs[p][i].projectId = p
            /\ pc[p] \in {"loop", "generating"} \/ PastGenerator(p) =>
                 /\ storedReqs[p] = getRequirementsByProject(p)
                 /\ acc[p] = ReplayRun(EmptyAcc, genResults[p], storedReqs[p], 1, p,
                                       projects[p].complianceFramework)
            /\ (Finished(p) /\ projects[p].status = "completed") =>
                 /\ Suffix(StripIds(getTestCasesByProject(p)), Len(acc[p].testCases))
                      = [i \in 1..Len(acc[p].testCases) |->
                           createTestCase(acc[p].testCases[i], <<>>)]
                 /\ Suffix(StripIds(getComplianceMappingsByProject(p)),
                           Len(acc[p].complianceMappings))
                      = [i \in 1..Len(acc[p].complianceMappings) |->
                           createComplianceMapping(acc[p].complianceMappings[i], <<>>)]
                 /\ Suffix(StripIds(getAiExplanationsByProject(p)),
                           Len(acc[p].explanations))
                      = [i \in 1..Len(acc[p].explanations) |->
                           createAiExplanation(acc[p].explanations[i], <<>>)])
    /\ [][\A p, q \in DOMAIN pc :
            (p # q /\ pc'[p] # pc[p]) =>
              /\ getRequirementsByProject(q)' = getRequirementsByProject(q)
              /\ getTestCasesByProject(q)' = getTestCasesByProject(q)
              /\ getComplianceMappingsByProject(q)' = getComplianceMappingsByProject(q)
              /\ getAiExplanationsByProject(q)' = getAiExplanationsByProject(q)
              /\ projects'[q] = projects[q]
              /\ acc'[q] = acc[q]
              /\ storedReqs'[q] = storedReqs[q]
              /\ idx'[q] = idx[q]]_vars

\* both runs completed with test cases, and the repository shows that they
\* overlapped: project 1 stored its requirements first, project 2 its test cases
C11_Witness ==
    /\ Cardinality(DOMAIN pc) = 2
    /\ \A p \in DOMAIN pc :
         /\ Finished(p)
         /\ projects[p].status = "completed"
         /\ Len(acc[p].testCases) = 2
    /\ requirements[1].projectId = 1
    /\ testCases[1].projectId = 2

\* v is m / n * 100 rounded to the nearest integer, halves upwards
IsRoundedPercent(v, m, n) ==
    /\ n > 0
    /\ 2 * n * v - n <= 200 * m
    /\ 200 * m < 2 * n * v + n

\* C12: for a project with requirements, Fetch results reports as
\* complianceCoverage the project's mapping count divided by its requirement
\* count, times 100, rounded, without a cap at 100; the coverage in the final
\* frame of a completed run is the same rounding of the run's mapping count
\* over the run's requirement count.
C12_CoverageFormula ==
    \A p \in DOMAIN projects :
      LET n == Len(getRequirementsByProject(p))
          m == Len(getComplianceMappingsByProject(p))
          reported == FetchResults(p).summary.complianceCoverage
      IN /\ n > 0 => /\ reported # Null
                     /\ IsRoundedPercent(reported[1], m, n)
         /\ (Finished(p) /\ Last(events[p]).step = CompletedStep /\ storedReqs[p] # <<>>) =>
              LET inFrame == Last(events[p]).summary[1].complianceCoverage IN
              /\ inFrame # Null
              /\ IsRoundedPercent(inFrame[1], Len(acc[p].complianceMappings),
                                  Len(storedReqs[p]))

\* 3 requirements with 4 mappings are reported as 133
C12_Witness ==
    \E p \in DOMAIN projects :
      /\ Finished(p)
      /\ Last(events[p]).step = CompletedStep
      /\ Len(getRequirementsByProject(p)) = 3
      /\ Len(getComplianceMappingsByProject(p)) = 4
      /\ FetchResults(p).summary.complianceCoverage = Some(133)

\* the positions of list whose requirementId is rid
LinkedAt(list, rid) == {j \in 1..Len(list) : list[j].requirementId = rid}
\* row holds exactly the entries of list at the positions at, in list order
HoldsInOrder(row, list, at) ==
    /\ Len(row) = Cardinality(at)
    /\ \A j \in at : row[Cardinality({k \in at : k <= j})] = list[j]

\* C13: the traceability matrix of Fetch results has one row per requirement
\* of the project, in the order of the requirement list; the row of a
\* requirement holds exactly the test cases and exactly the mappings whose
\* requirementId is the requirement's id, in list order; its coverage is 100
\* when a test case is linked and 0 otherwise.
C13_TraceabilityMatrix ==
    \A p \in DOMAIN projects :
      LET reqs == getRequirementsByProject(p)
          tcs == getTestCasesByProject(p)
          cms == getComplianceMappingsByProject(p)
          matrix == FetchResults(p).traceabilityMatrix
      IN /\ Len(matrix) = Len(reqs)
         /\ \A i \in 1..Len(reqs) :
              /\ matrix[i].requirement = reqs[i]
              /\ HoldsInOrder(matrix[i].testCases, tcs, LinkedAt(tcs, reqs[i].id))
              /\ HoldsInOrder(matrix[i].complianceMappings, cms, LinkedAt(cms, reqs[i].id))
              /\ matrix[i].coverage \in {0, 100}
              /\ matrix[i].coverage = 100 <=> LinkedAt(tcs, reqs[i].id) # {}

\* a matrix of two rows: nothing linked to the first requirement, two test
\* cases and a mapping linked to the second
C13_Witness ==
    \E p \in DOMAIN projects :
      LET matrix == FetchResults(p).traceabilityMatrix IN
      /\ Len(matrix) = 2
      /\ matrix[1].coverage = 0
      /\ matrix[2].coverage = 100
      /\ Len(matrix[2].testCases) = 2
      /\ Len(matrix[2].complianceMappings) = 1

\* x references a persisted requirement of its own project
ReferencesOwnRequirement(x) ==
    \E i \in 1..Len(requirements) :
      /\ requirements[i].id = x.requirementId
      /\ requirements[i].projectId = x.projectId

\* C14: in every reachable repository state each persisted test case and
\* each persisted compliance mapping has a requirementId that is the id of a
\* persisted requirement with the same projectId.
C14_ReferencesResolve ==
    /\ \A i \in 1..Len(testCases) : ReferencesOwnRequirement(testCases[i])
    /\ \A i \in 1..Len(complianceMappings) : ReferencesOwnRequirement(complianceMappings[i])

\* both projects have persisted test cases and mappings
C14_Witness ==
    /\ Cardinality(DOMAIN projects) = 2
    /\ \A p \in DOMAIN projects :
         /\ getTestCasesByProject(p) # <<>>
         /\ getComplianceMappingsByProject(p) # <<>>

\* an optional number that is present and within 0..100
InRange(c) == c # Null /\ c[1] >= 0 /\ c[1] <= 100

\* C15: every persisted requirement, compliance mapping and explanation has a
\* confidence within 0..100, whatever confidence (absent, negative, above
\* 100) the adapters returned.
C15_ConfidenceInRange ==
    /\ \A i \in 1..Len(requirements) : InRange(requirements[i].confidence)
    /\ \A i \in 1..Len(complianceMappings) : InRange(complianceMappings[i].confidence)
    /\ \A i \in 1..Len(aiExplanations) : InRange(aiExplanations[i].confidence)

\* s is the beginning of t
IsPrefix(s, t) == Len(s) <= Len(t) /\ SubSeq(t, 1, Len(s)) = s

\* C16: no step deletes an entity or changes a field of a persisted document,
\* requirement, test case, compliance mapping or explanation: every step
\* leaves each of these collections as it was or adds entities at its end;
\* no project disappears, and a persisted project changes only by
\* updateProject, which the endpoints use to write its status.
C16_AppendOnly ==
    [][/\ IsPrefix(documents, documents')
       /\ IsPrefix(requirements, requirements')
       /\ IsPrefix(testCases, testCases')
       /\ IsPrefix(complianceMappings, complianceMappings')
       /\ IsPrefix(aiExplanations, aiExplanations')
       /\ DOMAIN projects \subseteq DOMAIN projects'
       /\ \A p \in DOMAIN projects :
            [projects'[p] EXCEPT !.status = projects[p].status] = projects[p]]_vars

\* a second run has added a requirement, test cases, mappings and explanations
\* to what the first run had persisted, and has updated the project twice
C16_Witness ==
    \E p \in DOMAIN projects :
      /\ Finished(p)
      /\ projects[p].status = "completed"
      /\ documents # <<>>
      /\ Len(requirements) = 3
      /\ Len(testCases) = 7
      /\ Len(complianceMappings) = 4
      /\ Len(aiExplanations) = 11

\* the entries of coll stand in the order in which their keys were handed out
InCreationOrder(coll, map) == IdsOf(coll) = [i \in 1..Len(coll) |-> Uuid(map, i)]
\* list is exactly the entities of project p in coll, in the order of coll
ListsProject(list, coll, p) ==
    HoldsInOrder(list, coll, {j \in 1..Len(coll) : coll[j].projectId = p})

\* C17: every ...ByProject list is exactly the entities of the project, in
\* the order in which they were created, while creates for two projects and
\* updateProject calls interleave; a bulk create stores its items in input
\* order: the requirements a run persisted are listed in the order of the
\* extraction adapter's output, the test cases in the order of the generator's.
C17_InsertionOrder ==
    /\ InCreationOrder(requirements, "requirements")
    /\ InCreationOrder(testCases, "testCases")
    /\ InCreationOrder(complianceMappings, "complianceMappings")
    /\ InCreationOrder(aiExplanations, "aiExplanations")
    /\ \A p \in DOMAIN projects :
         /\ ListsProject(getDocumentsByProject(p), documents, p)
         /\ ListsProject(getRequirementsByProject(p), requirements, p)
         /\ ListsProject(getTestCasesByProject(p), testCases, p)
         /\ ListsProject(getComplianceMappingsByProject(p), complianceMappings, p)
         /\ ListsProject(getAiExplanationsByProject(p), aiExplanations, p)
         /\ (extracted[p] # <<>> /\ extracted[p][1].ok) =>
              LET items == extracted[p][1].items
                  listed == Suffix(getRequirementsByProject(p), Len(items))
              IN \A i \in 1..Len(items) :
                   /\ listed[i].requirementId = ConvertExtracted(items[i], i - 1, p).requirementId
                   /\ listed[i].confidence = Some(ConvertExtracted(items[i], i - 1, p).confidence)
         /\ (Finished(p) /\ projects[p].status = "completed") =>
              LET listed == Suffix(getTestCasesByProject(p), Len(acc[p].testCases)) IN
              \A i \in 1..Len(listed) :
                /\ listed[i].testCaseId = acc[p].testCases[i].testCaseId
                /\ listed[i].requirementId = acc[p].testCases[i].requirementId

\* the creates of two projects alternated: requirements of 1, requirements of
\* 2, test cases of 2, test cases of 1; each project lists two requirements
C17_Witness ==
    /\ Cardinality(DOMAIN projects) = 2
    /\ \A p \in DOMAIN projects :
         /\ Len(getRequirementsByProject(p)) = 2
         /\ getTestCasesByProject(p) # <<>>
    /\ requirements[1].projectId = 1
    /\ testCases[1].projectId = 2
    /\ testCases[Len(testCases)].projectId = 1

\* C18: the explanations a run produces correspond one-to-one to its
\* generation decisions: for every produced test case exactly one
\* explanation of type test_generation carries its testCaseId as entityId,
\* for every requirement as many compliance_mapping explanations carry its
\* id as mappings were produced for it, for every failed requirement exactly
\* one failure explanation carries its id, and there are no other explanations.
C18_ExplanationsOneToOne ==
    \A p \in DOMAIN pc :
      LET ex == acc[p].explanations IN
      /\ \A i \in 1..Len(acc[p].testCases) :
           LET About(x) == x.type = "test_generation"
                           /\ x.entityId = acc[p].testCases[i].testCaseId
           IN Count(ex, About) = 1
      /\ \A i \in 1..Len(storedReqs[p]) :
           LET rid == storedReqs[p][i].id
               About(x) == x.type = "compliance_mapping" /\ x.entityId = rid
               Linked(x) == x.requirementId = rid
           IN Count(ex, About) = Count(acc[p].complianceMappings, Linked)
      /\ \A i \in FailedCalls(p) :
           LET About(x) == x.type = "test_generation" /\ x.entityId = genCalls[p][i]
           IN Count(ex, About) = 1
      /\ Len(ex) = Len(acc[p].testCases) + Len(acc[p].complianceMappings)
                     + Cardinality(FailedCalls(p))

\* the requirement count a frame summary reports, Null when it reports none
RequirementCountIn(s) ==
    IF "requirementsCount" \in DOMAIN s THEN Some(s.requirementsCount) ELSE Null

\* C19: the summary in the final frame of a successful run reports the
\* requirement count, the test-case count, the edge-case count and the
\* coverage, each equal to the value Fetch results computes from the
\* repository right after the run, also when the run extracted no requirement.
C19_SummaryMatchesResults ==
    \A p \in DOMAIN pc :
      (Finished(p) /\ Last(events[p]).step = CompletedStep) =>
        LET inFrame == Last(events[p]).summary[1]
            fetched == FetchResults(p).summary
        IN /\ RequirementCountIn(inFrame) = Some(fetched.requirementsCount)
           /\ inFrame.totalTestCases = fetched.testCasesCount
           /\ inFrame.edgeCases = fetched.edgeCasesCount
           /\ inFrame.complianceCoverage = fetched.complianceCoverage

\* C20: the requirementId labels of the requirements one extractRequirements
\* call produces are pairwise distinct, also when the upstream response omits
\* the label of some items and "REQ-" + (index + 1) is used for them.
C20_DistinctRequirementLabels ==
    \A p \in DOMAIN pc :
      (extracted[p] # <<>> /\ extracted[p][1].ok) =>
        LET produced == InsertRequirementsOf(extracted[p][1].items, p) IN
        /\ \A i, j \in 1..Len(produced) :
             i # j => produced[i].requirementId # produced[j].requirementId
        /\ \A i, j \in 1..Len(storedReqs[p]) :
             i # j => storedReqs[p][i].requirementId # storedReqs[p][j].requirementId

\* the originalName of every entry of a list of documents or files
NamesOf(s) == [i \in 1..Len(s) |-> IF "originalName" \in DOMAIN s[i] THEN s[i].originalName
                                   ELSE s[i].name]

ChatMessages == {"", "why"}
ChatStatus(projectId, message) ==
    IF message = "" THEN 400
    ELSE IF ~storageUp THEN 500
    ELSE 200

\* C22: a request that names a project that does not exist is rejected by
\* every endpoint taking a project id, and it creates or changes no entity:
\* an upload for it answers an error and stores no document, the results and
\* the chat endpoint do not answer 200, and no stored document belongs to a
\* project that does not exist.
C22_MissingProjectRejected ==
    /\ \A files \in UploadBatches :
         LET out == UploadOutcome(documents, files, UnknownProject)
         IN out.status # 200 /\ out.documents = documents
    /\ FetchResults(UnknownProject).status # 200
    /\ \A m \in ChatMessages : ChatStatus(UnknownProject, m) # 200
    /\ \A i \in 1..Len(documents) : documents[i].projectId \in DOMAIN projects

\* --------------------------------------------------------------- export
\* text that comes from the upstream responses and is exported
MaxText == 1
MaxExported == 2
ExportChars == {"a", ",", "\"", "\n", "&", "<", ">", "'"}
Texts == SeqsUpTo(ExportChars, MaxText)

RECURSIVE Join(_, _)
\* Array.prototype.join of an array of strings
Join(parts, sep) ==
    IF parts = <<>> THEN <<>>
    ELSE IF Len(parts) = 1 THEN parts[1]
    ELSE parts[1] \o sep \o Join(Tail(parts), sep)

\* s || '' for a nullable string
StrOrEmpty(o) == IF o = <<>> THEN <<>> ELSE o[1]

\* `"${s}"`
InQuotes(s) == <<"\"">> \o s \o <<"\"">>

\* requirements.find(req => req.id === id)?.text
RequirementTextOf(reqs, id) ==
    IF \E i \in 1..Len(reqs) : reqs[i].id = id
    THEN Some(reqs[CHOOSE i \in 1..Len(reqs) :
                     reqs[i].id = id /\ \A j \in 1..(i - 1) : reqs[j].id # id].text)
    ELSE Null

\* the headers of generateCSV (line 400)
CsvHeaders == <<<<"I", "D">>,
               <<"T", "y", "p", "e">>,
               <<"T", "i", "t", "l", "e">>,
               <<"P", "r", "i", "o", "r", "i", "t", "y">>,
               <<"R", "e", "q", "u", "i", "r", "e", "m", "e", "n", "t">>,
               <<"C", "o", "m", "p", "l", "i", "a", "n", "c", "e", " ", "S", "e", "c", "t", "i", "o", "n">>,
               <<"P", "r", "e", "c", "o", "n", "d", "i", "t", "i", "o", "n", "s">>,
               <<"T", "e", "s", "t", " ", "S", "t", "e", "p", "s">>,
               <<"E", "x", "p", "e", "c", "t", "e", "d", " ", "R", "e", "s", "u", "l", "t">>>>

\* one row of generateCSV (lines 403-417)
CsvRow(reqs, tc) ==
    Join(<<tc.testCaseId,
           tc.type,
           InQuotes(tc.title),
           tc.priority,
           InQuotes(StrOrEmpty(RequirementTextOf(reqs, tc.requirementId))),
           StrOrEmpty(tc.complianceSection),
           InQuotes(StrOrEmpty(tc.preconditions)),
           InQuotes(StrOrEmpty(tc.testSteps)),
           InQuotes(StrOrEmpty(tc.expectedResult))>>, <<",">>)

\* generateCSV (routes lines 399-420)
generateCSV(reqs, tcs) ==
    Join(<<Join(CsvHeaders, <<",">>)>> \o [i \in 1..Len(tcs) |-> CsvRow(reqs, tcs[i])],
         <<"\n">>)

\* text.replace(/c/g, to) for a one-letter pattern
RECURSIVE ReplaceAll(_, _, _)
ReplaceAll(text, c, to) ==
    IF text = <<>> THEN <<>>
    ELSE (IF Head(text) = c THEN to ELSE <<Head(text)>>) \o ReplaceAll(Tail(text), c, to)

\* escapeXml (routes lines 443-450)
escapeXml(text) ==
    ReplaceAll(ReplaceAll(ReplaceAll(ReplaceAll(ReplaceAll(text,
        "&", <<"&", "a", "m", "p", ";">>), "<", <<"&", "l", "t", ";">>), ">", <<"&", "g", "t", ";">>), "\"", <<"&", "q", "u", "o", "t", ";">>), "'", <<"&", "#", "x", "2", "7", ";">>)

\* `    <name>${content}</name>\n`
XmlLine(name, content) ==
    <<" ", " ", " ", " ">> \o <<"<">> \o name \o <<">">> \o content \o <<"<", "/">> \o name \o <<">", "\n">>

\* the element names of generateXML
TitleTag == <<"t", "i", "t", "l", "e">>
TypeTag == <<"t", "y", "p", "e">>
PriorityTag == <<"p", "r", "i", "o", "r", "i", "t", "y">>
RequirementTag == <<"r", "e", "q", "u", "i", "r", "e", "m", "e", "n", "t">>
ComplianceSectionTag == <<"c", "o", "m", "p", "l", "i", "a", "n", "c", "e", "S", "e", "c", "t", "i", "o", "n">>
PreconditionsTag == <<"p", "r", "e", "c", "o", "n", "d", "i", "t", "i", "o", "n", "s">>
TestStepsTag == <<"t", "e", "s", "t", "S", "t", "e", "p", "s">>
ExpectedResultTag == <<"e", "x", "p", "e", "c", "t", "e", "d", "R", "e", "s", "u", "l", "t">>
TestCaseTag == <<"t", "e", "s", "t", "C", "a", "s", "e">>
TestSuiteTag == <<"t", "e", "s", "t", "S", "u", "i", "t", "e">>

\* one callback of testCases.forEach in generateXML (lines 425-437)
XmlTestCase(reqs, tc) ==
    <<" ", " ">> \o <<"<">> \o TestCaseTag \o <<" ", "i", "d", "=", "\"">> \o tc.testCaseId \o <<"\"", ">", "\n">>
    \o XmlLine(TitleTag, escapeXml(tc.title))
    \o XmlLine(TypeTag, tc.type)
    \o XmlLine(PriorityTag, tc.priority)
    \o XmlLine(RequirementTag, escapeXml(StrOrEmpty(RequirementTextOf(reqs, tc.requirementId))))
    \o XmlLine(ComplianceSectionTag, StrOrEmpty(tc.complianceSection))
    \o XmlLine(PreconditionsTag, escapeXml(StrOrEmpty(tc.preconditions)))
    \o XmlLine(TestStepsTag, escapeXml(StrOrEmpty(tc.testSteps)))
    \o XmlLine(ExpectedResultTag, escapeXml(StrOrEmpty(tc.expectedResult)))
    \o <<" ", " ">> \o <<"<", "/">> \o TestCaseTag \o <<">", "\n">>

\* generateXML (routes lines 422-441)
generateXML(reqs, tcs) ==
    <<"<", "?", "x", "m", "l", " ", "v", "e", "r", "s", "i", "o", "n", "=", "\"", "1", ".", "0", "\"", " ", "e", "n", "c", "o", "d", "i", "n", "g", "=", "\"", "U", "T", "F", "-", "8", "\"", "?", ">">>
    \o <<"\n", "<">> \o TestSuiteTag \o <<">", "\n">>
    \o Join([i \in 1..Len(tcs) |-> XmlTestCase(reqs, tcs[i])], <<>>)
    \o <<"<", "/">> \o TestSuiteTag \o <<">">>

\* the export service: GET /api/projects/:id/export/:format (lines 309-353)
ExportFormats == {"csv", "xml", "word", "pdf"}
ExportAnswer(projectId, format) ==
    IF ~storageUp THEN [status |-> 500, body |-> <<>>]
    ELSE IF projectId \notin DOMAIN projects THEN [status |-> 404, body |-> <<>>]
    ELSE LET reqs == getRequirementsByProject(projectId)
             tcs == getTestCasesByProject(projectId)
         IN IF format = "csv" THEN [status |-> 200, body |-> generateCSV(reqs, tcs)]
            ELSE IF format = "xml" THEN [status |-> 200, body |-> generateXML(reqs, tcs)]
            ELSE IF format = "word" THEN [status |-> 200, body |-> <<>>]
            ELSE [status |-> 400, body |-> <<>>]

ExportRequest(id, format) ==
    /\ httpStatus' = ExportAnswer(id, format).status
    /\ UNCHANGED repoVars
    /\ UNCHANGED storageUp
    /\ UNCHANGED runVars

\* a reader of comma-separated values (RFC 4180): a field is bare or in double
\* quotes, a quoted field holds commas and line breaks as they are and a
\* double quote as two; a line break outside quotes ends the record
CsvStep(st, c) ==
    LET EndField == [st EXCEPT !.record = Append(@, st.field), !.field = <<>>,
                               !.mode = "start"]
        EndRecord == [st EXCEPT !.records = Append(@, Append(st.record, st.field)),
                                !.record = <<>>, !.field = <<>>, !.mode = "start"]
    IN
    CASE st.mode = "quoted" ->
           IF c = "\"" THEN [st EXCEPT !.mode = "closing"]
           ELSE [st EXCEPT !.field = Append(@, c)]
      [] st.mode = "closing" /\ c = "\"" ->
           [st EXCEPT !.field = Append(@, c), !.mode = "quoted"]
      [] st.mode = "start" /\ c = "\"" -> [st EXCEPT !.mode = "quoted"]
      [] st.mode # "quoted" /\ c = "," -> EndField
      [] st.mode # "quoted" /\ c = "\n" -> EndRecord
      [] st.mode = "bare" /\ c = "\"" -> [st EXCEPT !.ok = FALSE]
      [] st.mode = "closing" /\ c \notin {"\"", ",", "\n"} -> [st EXCEPT !.ok = FALSE]
      [] OTHER -> [st EXCEPT !.field = Append(@, c), !.mode = "bare"]

RECURSIVE CsvScan(_, _, _, _)
\* the reader's state after the characters lo..hi of s (halved, which keeps
\* the evaluation shallow)
CsvScan(st, s, lo, hi) ==
    IF lo > hi THEN st
    ELSE IF lo = hi THEN (IF st.ok THEN CsvStep(st, s[lo]) ELSE st)
    ELSE LET mid == (lo + hi) \div 2
             left == CsvScan(st, s, lo, mid)
         IN IF left.ok THEN CsvScan(left, s, mid + 1, hi) ELSE left

ParseCSV(s) ==
    LET st == CsvScan([records |-> <<>>, record |-> <<>>, field |-> <<>>,
                       mode |-> "start", ok |-> TRUE], s, 1, Len(s))
    IN IF ~st.ok \/ st.mode = "quoted" THEN [st EXCEPT !.ok = FALSE]
       ELSE [st EXCEPT !.records = Append(@, Append(st.record, st.field))]

\* a run of project 1 whose generation call returned n draft test cases and
\* no mapping, and what it accumulated
ExportedGenerated(n) ==
    [ok |-> TRUE, testCases |-> [i \in 1..n |-> [isEdgeCase |-> Some(TRUE), confidence |-> Null]],
     complianceMappings |-> <<>>]
ExportedAcc(n) == OnGenerated(EmptyAcc, ExportedGenerated(n), 1, FirstRequirements[1], "HIPAA")

\* the fields of a stored test case that the export prints, next to the ones
\* of createTestCase: the title and the compliance section are the texts of
\* the draft
ExportedFields(title, section) ==
    [title |-> title, type |-> <<"u", "n", "i", "t">>, priority |-> <<"h", "i", "g", "h">>,
     complianceSection |-> section, preconditions |-> Null,
     testSteps |-> Some(<<"g", "o">>), expectedResult |-> Null]

\* the state in which a run of project 1 has completed; the stored
\* requirement and test cases carry the texts of the upstream responses
InitExport ==
    \E text \in Texts :
    \E drafts \in SeqsUpTo(Texts \X ({Null} \cup {Some(t) : t \in Texts}), MaxExported) :
      LET a == ExportedAcc(Len(drafts))
          reqs == [i \in 1..Len(FirstRequirements) |->
                     [text |-> text] @@ FirstRequirements[i]]
      IN
      /\ projects = (1 :> [id |-> 1, complianceFramework |-> "HIPAA", status |-> "completed"])
      /\ documents = <<[id |-> Uuid("document", 1), projectId |-> 1, originalName |-> "a.txt"]>>
      /\ requirements = reqs
      /\ testCases = [i \in 1..Len(drafts) |->
                        ExportedFields(drafts[i][1], drafts[i][2])
                        @@ createTestCase(a.testCases[i], Uuid("testCases", i))]
      /\ complianceMappings = <<>>
      /\ aiExplanations = [i \in 1..Len(a.explanations) |->
                             createAiExplanation(a.explanations[i], Uuid("aiExplanations", i))]
      /\ storageUp = TRUE
      /\ httpStatus = 200
      /\ pc = (1 :> "done")
      /\ stream = (1 :> "ended")
      /\ events = (1 :> (OpeningEvents \o AfterExtractionEvents("HIPAA")
                          \o <<GenerationCompletedEvent,
                               FinalEvent(SummaryOf(a, FirstRequirements))>>))
      /\ readerClosed = (1 :> FALSE)
      /\ storedReqs = (1 :> reqs)
      /\ idx = (1 :> 2)
      /\ acc = (1 :> a)
      /\ summary = (1 :> SummaryOf(a, FirstRequirements))
      /\ genCalls = (1 :> <<FirstRequirements[1].id>>)
      /\ genResults = (1 :> <<ExportedGenerated(Len(drafts))>>)
      /\ extracted = (1 :> Some(FirstExtracted))
      /\ runsLeft = 0

NextExport ==
    \E id \in ProjectIds \cup {UnknownProject}, format \in ExportFormats :
        ExportRequest(id, format)

SpecExport == InitExport /\ [][NextExport]_vars

\* C23: parsing the output of generateCSV as CSV yields the header and then
\* one record per test case, in order, whose ID, Requirement and Compliance
\* Section columns are the testCaseId, the text of the requirement and the
\* complianceSection of the test case, also when the texts hold commas,
\* double quotes and line breaks.
C23_CsvRoundTrip ==
    \A p \in DOMAIN projects :
      LET reqs == getRequirementsByProject(p)
          tcs == getTestCasesByProject(p)
          parsed == ParseCSV(ExportAnswer(p, "csv").body)
      IN storageUp =>
         /\ parsed.ok
         /\ Len(parsed.records) = Len(tcs) + 1
         /\ \A i \in 1..Len(tcs) :
              LET rec == parsed.records[i + 1] IN
              /\ Len(rec) = Len(CsvHeaders)
              /\ rec[1] = tcs[i].testCaseId
              /\ rec[5] = StrOrEmpty(RequirementTextOf(reqs, tcs[i].requirementId))
              /\ rec[6] = StrOrEmpty(tcs[i].complianceSection)

\* a reader of XML documents: markup between < and >, attribute values
\* between double quotes, character data with the references &amp; &lt;
\* &gt; &quot; &apos; and &#x27; &#39;.  It yields the elements it opened
\* and closed and the character data between them, or fails (ok = FALSE) on
\* a document that is not well formed
XmlSpace == {" ", "\n"}
XmlReference(ent) ==
    CASE ent = <<"a", "m", "p">> -> <<"&">>
      [] ent = <<"l", "t">> -> <<"<">>
      [] ent = <<"g", "t">> -> <<">">>
      [] ent = <<"q", "u", "o", "t">> -> <<"\"">>
      [] ent = <<"a", "p", "o", "s">> -> <<"'">>
      [] ent = <<"#", "x", "2", "7">> -> <<"'">>
      [] ent = <<"#", "3", "9">> -> <<"'">>
      [] OTHER -> <<>>

\* the name of a start tag: its letters before the first space
RECURSIVE TagName(_)
TagName(raw) ==
    IF raw = <<>> \/ Head(raw) \in XmlSpace THEN <<>>
    ELSE <<Head(raw)>> \o TagName(Tail(raw))

XmlEndTag(st) ==
    LET raw == st.raw
        flushed == [st EXCEPT !.mode = "text", !.raw = <<>>, !.attrs = <<>>, !.cur = <<>>]
    IN
    IF raw = <<>> THEN [st EXCEPT !.ok = FALSE]
    ELSE IF Head(raw) = "?"
    THEN IF Len(raw) > 1 /\ raw[Len(raw)] = "?" /\ st.stack = <<>> /\ st.events = <<>>
         THEN flushed ELSE [st EXCEPT !.ok = FALSE]
    ELSE IF Head(raw) = "/"
    THEN IF st.stack # <<>> /\ st.stack[Len(st.stack)] = Tail(raw)
         THEN [flushed EXCEPT !.stack = SubSeq(st.stack, 1, Len(st.stack) - 1),
                              !.events = Append(@, [kind |-> "close", name |-> Tail(raw)])]
         ELSE [st EXCEPT !.ok = FALSE]
    ELSE IF TagName(raw) = <<>> \/ (st.stack = <<>> /\ st.events # <<>>)
    THEN [st EXCEPT !.ok = FALSE]
    ELSE [flushed EXCEPT !.stack = Append(@, TagName(raw)),
                         !.events = Append(@, [kind |-> "open", name |-> TagName(raw),
                                               attrs |-> st.attrs])]

XmlStep(st, c) ==
    CASE st.mode = "text" /\ c = "<" ->
           [st EXCEPT !.mode = "tag", !.raw = <<>>, !.attrs = <<>>, !.cur = <<>>,
                      !.events = IF st.cur = <<>> \/ st.stack = <<>> THEN @
                                 ELSE Append(@, [kind |-> "text", value |-> st.cur])]
      [] st.mode = "text" /\ c = "&" ->
           [st EXCEPT !.mode = "reference", !.back = "text", !.ent = <<>>]
      [] st.mode = "text" /\ c \notin {"<", "&"} ->
           IF st.stack = <<>> /\ c \notin XmlSpace THEN [st EXCEPT !.ok = FALSE]
           ELSE [st EXCEPT !.cur = Append(@, c)]
      [] st.mode = "tag" /\ c = ">" -> XmlEndTag(st)
      [] st.mode = "tag" /\ c = "\"" -> [st EXCEPT !.mode = "attr", !.cur = <<>>]
      [] st.mode = "tag" /\ c \in {"<", "&", "'"} -> [st EXCEPT !.ok = FALSE]
      [] st.mode = "tag" /\ c \notin {">", "\"", "<", "&", "'"} ->
           [st EXCEPT !.raw = Append(@, c)]
      [] st.mode = "attr" /\ c = "\"" ->
           [st EXCEPT !.mode = "tag", !.attrs = Append(@, st.cur), !.cur = <<>>]
      [] st.mode = "attr" /\ c = "<" -> [st EXCEPT !.ok = FALSE]
      [] st.mode = "attr" /\ c = "&" ->
           [st EXCEPT !.mode = "reference", !.back = "attr", !.ent = <<>>]
      [] st.mode = "attr" /\ c \notin {"\"", "<", "&"} -> [st EXCEPT !.cur = Append(@, c)]
      [] st.mode = "reference" /\ c = ";" ->
           IF XmlReference(st.ent) = <<>> THEN [st EXCEPT !.ok = FALSE]
           ELSE [st EXCEPT !.mode = st.back, !.cur = @ \o XmlReference(st.ent)]
      [] st.mode = "reference" /\ c # ";" ->
           IF c \in {"<", "&", "\"", "'", ">"} \cup XmlSpace THEN [st EXCEPT !.ok = FALSE]
           ELSE [st EXCEPT !.ent = Append(@, c)]

RECURSIVE XmlScan(_, _, _, _)
\* the reader's state after the characters lo..hi of s (halved, which keeps
\* the evaluation shallow)
XmlScan(st, s, lo, hi) ==
    IF lo > hi THEN st
    ELSE IF lo = hi THEN (IF st.ok THEN XmlStep(st, s[lo]) ELSE st)
    ELSE LET mid == (lo + hi) \div 2
             left == XmlScan(st, s, lo, mid)
         IN IF left.ok THEN XmlScan(left, s, mid + 1, hi) ELSE left

ParseXML(s) ==
    LET st == XmlScan([ok |-> TRUE, mode |-> "text", back |-> "text", cur |-> <<>>,
                       raw |-> <<>>, attrs |-> <<>>, ent |-> <<>>, stack |-> <<>>,
                       events |-> <<>>], s, 1, Len(s))
    IN [ok |-> st.ok /\ st.mode = "text" /\ st.stack = <<>> /\ st.events # <<>>,
        events |-> st.events]

\* the elements and character data of the document that carries the fields
\* of the test cases tcs: what reading the export has to give
XmlText(value) == [kind |-> "text", value |-> value]
XmlElement(name, value) ==
    <<[kind |-> "open", name |-> name, attrs |-> <<>>]>>
    \o (IF value = <<>> THEN <<>> ELSE <<XmlText(value)>>)
    \o <<[kind |-> "close", name |-> name]>>
ExportedFieldsOf(reqs, tc) ==
    <<<<TitleTag, tc.title>>,
      <<TypeTag, tc.type>>,
      <<PriorityTag, tc.priority>>,
      <<RequirementTag, StrOrEmpty(RequirementTextOf(reqs, tc.requirementId))>>,
      <<ComplianceSectionTag, StrOrEmpty(tc.complianceSection)>>,
      <<PreconditionsTag, StrOrEmpty(tc.preconditions)>>,
      <<TestStepsTag, StrOrEmpty(tc.testSteps)>>,
      <<ExpectedResultTag, StrOrEmpty(tc.expectedResult)>>>>
ExpectedTestCase(reqs, tc) ==
    LET fields == ExportedFieldsOf(reqs, tc) IN
    <<[kind |-> "open", name |-> TestCaseTag, attrs |-> <<tc.testCaseId>>]>>
    \o Join([i \in 1..Len(fields) |->
               <<XmlText(<<"\n", " ", " ", " ", " ">>)>>
               \o XmlElement(fields[i][1], fields[i][2])], <<>>)
    \o <<XmlText(<<"\n", " ", " ">>), [kind |-> "close", name |-> TestCaseTag]>>
ExpectedDocument(reqs, tcs) ==
    <<[kind |-> "open", name |-> TestSuiteTag, attrs |-> <<>>]>>
    \o Join([i \in 1..Len(tcs) |->
               <<XmlText(<<"\n", " ", " ">>)>> \o ExpectedTestCase(reqs, tcs[i])], <<>>)
    \o <<XmlText(<<"\n">>), [kind |-> "close", name |-> TestSuiteTag]>>

\* C24: the document of generateXML is well formed, and reading it with the
\* references un-escaped gives, per test case and in order, the id attribute
\* and the elements title, type, priority, requirement, complianceSection,
\* preconditions, testSteps and expectedResult with exactly the values of
\* the result set, also when the values hold & < > " or '.
C24_XmlRoundTrip ==
    \A p \in DOMAIN projects :
      LET reqs == getRequirementsByProject(p)
          tcs == getTestCasesByProject(p)
          parsed == ParseXML(ExportAnswer(p, "xml").body)
      IN storageUp => parsed.ok /\ parsed.events = ExpectedDocument(reqs, tcs)

\* Dashboard.processDocuments (client lines 85-122): isProcessing after the
\* frame data has been handled
ClientOnFrame(isProcessing, data) ==
    IF data.step = CompletedStep THEN FALSE ELSE isProcessing

RECURSIVE ClientAfterFrames(_, _)
\* the for loop over the lines read from the stream, from isProcessing on
ClientAfterFrames(isProcessing, frames) ==
    IF frames = <<>> THEN isProcessing
    ELSE ClientAfterFrames(ClientOnFrame(isProcessing, Head(frames)), Tail(frames))

\* isProcessing of the client that has read frames up to the end of the
\* stream: setIsProcessing(true) of line 85, then the frames; the mutation
\* resolves, so onError does not run
ClientIsProcessing(frames) == ClientAfterFrames(TRUE, frames)

\* C25: once the stream has delivered its terminal frame to the client and
\* has ended, the client is not in its processing state, whether the terminal
\* frame says processing completed or processing failed.
C25_ClientLeavesProcessing ==
    \A p \in DOMAIN pc :
      (/\ stream[p] = "ended"
       /\ ~readerClosed[p]
       /\ events[p] # <<>>
       /\ IsTerminal(Last(events[p])))
      => ~ClientIsProcessing(events[p])

\* the entries of the repository list stored that match the produced entry x
\* in every field but the key
StoredAs(stored, x) == \E i \in 1..Len(stored) : [f \in DOMAIN x |-> stored[i][f]] = x

\* C26: when the generation adapter is called for the next requirement, the
\* test cases, compliance mappings and explanations produced for the
\* requirement before it, if its call succeeded, are in the repository.
C26_PersistedPerIteration ==
    [][\A p \in DOMAIN pc :
         (/\ Len(genCalls'[p]) = Len(genCalls[p]) + 1
          /\ genCalls[p] # <<>>
          /\ genResults[p][Len(genCalls[p])].ok)
         => /\ \A i \in 1..Len(acc[p].testCases) :
                 acc[p].testCases[i].requirementId = Last(genCalls[p])
                 => \E j \in 1..Len(testCases') :
                      /\ testCases'[j].projectId = p
                      /\ testCases'[j].requirementId = Last(genCalls[p])
                      /\ testCases'[j].testCaseId = acc[p].testCases[i].testCaseId
            /\ \A i \in 1..Len(acc[p].complianceMappings) :
                 acc[p].complianceMappings[i].requirementId = Last(genCalls[p])
                 => StoredAs(complianceMappings', acc[p].complianceMappings[i])
            /\ \A i \in 1..Len(acc[p].explanations) :
                 StoredAs(aiExplanations', acc[p].explanations[i])]_vars

RECURSIVE DraftsOf(_)
\* the draft test cases of the calls that returned, in order
DraftsOf(results) ==
    IF results = <<>> THEN <<>>
    ELSE (IF Head(results).ok THEN Head(results).testCases ELSE <<>>) \o DraftsOf(Tail(results))

\* C27: the test case produced from a draft has the draft's isEdgeCase, or
\* false if the draft has none; its explanation has the draft's confidence,
\* or 85 if the draft has none; a draft confidence of 0 gives confidence 0.
C27_DraftValuesKept ==
    \A p \in DOMAIN pc :
      LET drafts == DraftsOf(genResults[p])
          \* the explanation of a test case names its testCaseId, the one of a
          \* failed call names the requirement
          OfTestCase(x) == x.type = "test_generation" /\ x.entityId \notin Range(genCalls[p])
          expl == SelectSeq(acc[p].explanations, OfTestCase)
      IN /\ Len(acc[p].testCases) = Len(drafts)
         /\ Len(expl) = Len(drafts)
         /\ \A k \in 1..Len(drafts) :
              /\ acc[p].testCases[k].isEdgeCase =
                   (IF drafts[k].isEdgeCase = Null THEN FALSE ELSE drafts[k].isEdgeCase[1])
              /\ expl[k].confidence =
                   (IF drafts[k].confidence = Null THEN Some(85) ELSE drafts[k].confidence)

\* C28: a create of the repository stores the supplied fields with the values
\* of its input and adds only the key: the test cases a run stores carry the
\* projectId, requirementId, testCaseId and isEdgeCase of the produced test
\* cases (isEdgeCase false stays false), and the requirements it stores
\* carry the projectId, requirementId and confidence of the converted items.
C28_CreateKeepsFields ==
    [][\A p \in DOMAIN pc :
         /\ (pc[p] = "store_tc" /\ pc'[p] = "store_cm") =>
              LET ins == acc[p].testCases
                  added == Suffix(testCases', Len(testCases') - Len(testCases))
              IN /\ Len(added) = Len(ins)
                 /\ \A k \in 1..Len(ins) :
                      /\ added[k].projectId = ins[k].projectId
                      /\ added[k].requirementId = ins[k].requirementId
                      /\ added[k].testCaseId = ins[k].testCaseId
                      /\ added[k].isEdgeCase = Some(ins[k].isEdgeCase)
         /\ (pc[p] = "extracting" /\ pc'[p] = "loop") =>
              LET ins == InsertRequirementsOf(extracted'[p][1].items, p)
                  added == Suffix(requirements', Len(requirements') - Len(requirements))
              IN /\ Len(added) = Len(ins)
                 /\ \A k \in 1..Len(ins) :
                      /\ added[k].projectId = ins[k].projectId
                      /\ added[k].requirementId = ins[k].requirementId
                      /\ added[k].confidence = Some(ins[k].confidence)]_vars

\* C29: a Start-processing request that is answered 404 (project missing) or
\* 400 (no documents), so that no stream is opened, leaves the repository
\* as it was: no entity is created and the status of the project is kept.
C29_RejectedStartChangesNothing ==
    [][(/\ httpStatus' \in {400, 404}
        /\ runVars' = runVars
        /\ documents' = documents
        /\ DOMAIN projects' = DOMAIN projects)
       => repoVars' = repoVars]_vars

\* C30: after a second run on the project that a first run completed, the
\* test cases of the project carry pairwise distinct testCaseIds, the second
\* run hands no requirement of the first run to the generation adapter
\* again, and the requirements of the first run have the test cases the
\* first run gave them and no more.
C30_RerunKeepsEarlierResults ==
    \A p \in DOMAIN pc :
      LET tcs == getTestCasesByProject(p) IN
      /\ \A i, j \in 1..Len(tcs) : i # j => tcs[i].testCaseId # tcs[j].testCaseId
      /\ \A i \in 1..Len(FirstRequirements) :
           LET Linked(x) == x.projectId = p /\ x.requirementId = FirstRequirements[i].id IN
           /\ runsLeft = 0 => FirstRequirements[i].id \notin Range(genCalls[p])
           /\ Count(testCases, Linked) = Count(FirstAcc.testCases, Linked)

====
